---- MODULE Spec2Model ----
(***************************************************************************)
(* Campaign delivery engine of mp_loyality_bot: the seller credit ledger,  *)
(* the campaign state machine, the Start operation                         *)
(* (start_campaign_sending), the delivery queue and the completion         *)
(* detector, modelled over the PostgreSQL tables the code reads and        *)
(* writes (READ COMMITTED: a transaction's writes become visible at its    *)
(* commit, a row lock is held until commit or rollback).                   *)
(***************************************************************************)
EXTENDS Integers, Sequences, FiniteSets, TLC

\* ------------------------------------------------------------------------
\* Bounds of the model
\* ------------------------------------------------------------------------
MaxNow == 1
\* the clock, the attempts per delivery and the crashes of the worker processes
MaxWorkerNow == 2
MaxAttempts == 2
MaxCrashes == 1
\* the settings and attempts _calc_backoff_seconds is evaluated on
MinBackoffSetting == -1
MaxBackoffBase == 3
MaxBackoffMax == 4
MaxBackoffAttempt == 4
MaxGrants == 1
BatchSize == 2
LeaseSeconds == 2
RetryBase == 1
RetryMax == 2
\* error texts: their longest length, and the length last_error is cut to
\* (5000 in the repository)
MaxErrorLen == 3
LastErrorLimit == 2

\* ------------------------------------------------------------------------
\* Program constants and the static part of the data set
\* ------------------------------------------------------------------------
DEFAULT_FREE_CREDITS_ON_SIGNUP == 3

Sellers == {1, 2}
Campaigns == {1, 2}
Customers == {1, 2}
Shops == {1}
Procs == {1, 2}
\* the process and the campaign that the open specification Spec acts on;
\* SpecLedger and SpecTwoStarts act on both
MainProcs == {1}
MainCampaigns == {1}
GrantDeltas == {1}
RetryAfterValues == {2}

\* campaigns.shop_id and shops.seller_id: set once by create_campaign_draft
\* and create_shop, never updated afterwards.
ShopOf(c) == 1
SellerOfShop(sh) == 1

\* campaigns of seller 1 started and completed before the modelled window;
\* only their ledger rows remain of interest
OldCampaign(i) == 10 + i
NoCampaign == 0

Outcomes == {"ok", "retry_after", "forbidden", "bad_request", "transient"}
TerminalStatuses == {"sent", "blocked", "failed"}

\* concurrent invocations of the payment handlers (aiogram handles updates as tasks)
Handlers == {1, 2}
MainHandlers == {1}
\* the seller whose confirmations SpecPayments handles concurrently
MainSellers == {1}
\* telegram_payment_charge_id values of credits_pack payments
Charges == {"ch_a", "ch_b"}
\* invoice_payload values of hub payment orders (build_invoice_payload)
OrderPayloads == {"order:a"}
\* worker processes running main()
Workers == {1, 2}
MainWorkers == {1}

VARIABLES
    sellers,                      \* tg_user_id of the rows of table sellers
    seller_credits,               \* seller -> balance
    seller_credit_transactions,   \* seller -> its ledger rows, in insertion order
    campaigns,                    \* campaign -> row
    prechecked,                   \* campaigns whose invoice passed pre_checkout
    shop_customers,               \* shop -> customer -> subscription status
    campaign_deliveries,          \* campaign -> customer -> row ("none": no row)
    now,                          \* database clock, in seconds
    start,                        \* proc -> start_campaign_sending call
    grants,                       \* number of add_seller_credits grants so far
    payment,                      \* handler -> payment confirmation being handled
    worker,                       \* worker -> position in the loop of main() and its leased jobs
    channel_sends,                \* campaign -> customer -> successful sends so far
    crashes,                      \* number of worker crashes so far
    backoff_call,                 \* one evaluation of _calc_backoff_seconds
    completed_notified,           \* campaign -> the flag campaigns.completed_notified
    seller_inbox,                 \* campaign -> completion summaries its seller received
    delivery_id,                  \* campaign -> customer -> campaign_deliveries.id
    send_batch_size,              \* worker -> settings.send_batch_size of its process
    reschedule_call,              \* one call of reschedule_delivery and the last_error it wrote
    ensure,                       \* proc -> ensure_seller or create_shop transaction
    seller_credits_rows,          \* sellers that have a row in table seller_credits
    payment_orders                \* order -> row of the central table payment_orders

vars == <<sellers, seller_credits, seller_credit_transactions, campaigns,
          prechecked, shop_customers, campaign_deliveries, now, start, grants,
          payment, worker, channel_sends, crashes, backoff_call, completed_notified, seller_inbox, delivery_id, send_batch_size, reschedule_call, ensure, seller_credits_rows, payment_orders>>

\* ------------------------------------------------------------------------
\* Helpers
\* ------------------------------------------------------------------------
Max2(a, b) == IF a >= b THEN a ELSE b
Min2(a, b) == IF a <= b THEN a ELSE b

RECURSIVE Pow2(_)
Pow2(n) == IF n <= 0 THEN 1 ELSE 2 * Pow2(n - 1)

RECURSIVE SumDelta(_, _)
\* sum of delta over the first n rows of a seller's ledger
SumDelta(txs, n) ==
    IF n = 0 THEN 0 ELSE SumDelta(txs, n - 1) + txs[n].delta

TxRow(s, d, reason, c, bal) ==
    [seller_id |-> s, delta |-> d, reason |-> reason, campaign_id |-> c,
     tg_payment_charge_id |-> "none", invoice_payload |-> "none",
     balance_after |-> bal]

NoDelivery == [status |-> "none", attempt_count |-> 0, next_attempt_at |-> 0]

NewCampaign == [status |-> "draft", total_recipients |-> 0, sent_count |-> 0,
                failed_count |-> 0, blocked_count |-> 0]

IdleCall == [pc |-> "idle", tg |-> 0, c |-> 0, res |-> "none", ret |-> 0,
             new_balance |-> 0, tx_now |-> 0]

\* variant: the exponent is the attempt, not the attempt minus one
calc_backoff_doubled(base, max_seconds, attempt) ==
    LET a == Max2(1, attempt)
        s1 == base * Pow2(a)
        s2 == Max2(base, s1)
        s3 == Min2(max_seconds, s2)
    IN  Max2(1, s3)

\* _calc_backoff_seconds(attempt) as a function of the two settings it reads,
\* retry_base_seconds and retry_max_seconds
calc_backoff(base, max_seconds, attempt) ==
    LET a == Max2(1, attempt)
        s1 == base * Pow2(Max2(0, a - 1))
        s2 == Max2(base, s1)
        s3 == Min2(max_seconds, s2)
    IN  Max2(1, s3)

\* _calc_backoff_seconds(attempt) under the settings of the worker
calc_backoff_seconds(attempt) == calc_backoff(RetryBase, RetryMax, attempt)

IdlePayment == [pc |-> "idle", kind |-> "none", tg |-> 0, key |-> "none",
                already |-> FALSE, res |-> "none", balance |-> 0, charge |-> "none"]

\* provider_payment_charge_id values of hub payments
ProviderCharges == {"pc_a", "pc_b"}

\* create_payment_order: a new order of a buyer, status pending
\* (paid_at, fulfilled_at: -1 stands for NULL)
NewOrder(tg) == [status |-> "pending", buyer_tg_id |-> tg,
                 provider_payment_charge_id |-> "none",
                 paid_at |-> 0 - 1, fulfilled_at |-> 0 - 1]

\* an order of seller 1 that the payment hub has marked paid
PaidOrder == [NewOrder(1) EXCEPT !.status = "paid", !.provider_payment_charge_id = "pc_a",
                                 !.paid_at = 0]

NoItem == [c |-> 0, u |-> 0, attempt |-> 0, lease_until |-> 0]

NoNotice == [campaign_id |-> 0, total_recipients |-> 0, sent_count |-> 0,
             failed_count |-> 0, blocked_count |-> 0]

IdleWorker == [pc |-> "idle", tx_now |-> 0, rows |-> {}, items |-> {},
               item |-> NoItem, outcome |-> "none", n |-> 0, finalized |-> 0,
               listed |-> {}, notice |-> NoNotice]

NoBackoffCall == [base |-> 0, max |-> 0, attempt |-> 0, seconds |-> 0]

NoRescheduleCall ==
    [c |-> 0, u |-> 0, delay |-> 0, error |-> << >>, last_error |-> << >>]

\* campaign_deliveries.id (bigserial) when the rows were inserted campaign by
\* campaign, customer by customer
SerialIds ==
    [c \in Campaigns |-> [u \in Customers |-> (c - 1) * Cardinality(Customers) + u]]

\* no ensure_seller or create_shop call in progress
IdleEnsure == [pc |-> "idle", op |-> "none", tg |-> 0, ins |-> FALSE, ret |-> 0]

\* no payment is being handled, the workers are about to lease, nothing was sent
InitIdle ==
    /\ payment = [h \in Handlers |-> IdlePayment]
    /\ worker = [w \in Workers |-> IdleWorker]
    /\ channel_sends = [c \in Campaigns |-> [u \in Customers |-> 0]]
    /\ crashes = 0
    /\ backoff_call = NoBackoffCall
    /\ completed_notified = [c \in Campaigns |-> FALSE]
    /\ seller_inbox = [c \in Campaigns |-> << >>]
    /\ delivery_id = SerialIds
    /\ send_batch_size = [w \in Workers |-> BatchSize]
    /\ reschedule_call = NoRescheduleCall
    /\ ensure = [p \in Procs |-> IdleEnsure]

\* the ledger of a seller who signed up and then started k campaigns
SignupLedger(s, k) ==
    [i \in 1..(k + 1) |->
        IF i = 1
        THEN TxRow(s, DEFAULT_FREE_CREDITS_ON_SIGNUP, "free_signup", NoCampaign,
                   DEFAULT_FREE_CREDITS_ON_SIGNUP)
        ELSE TxRow(s, -1, "campaign_send", OldCampaign(i - 1),
                   DEFAULT_FREE_CREDITS_ON_SIGNUP - (i - 1))]

\* ------------------------------------------------------------------------
\* Initial state: seller 1 has signed up (ensure_seller), has spent k of the
\* free credits on earlier campaigns, owns shop 1 and has authored two draft
\* campaigns; seller 2 has not signed up yet.
\* ------------------------------------------------------------------------
InitTables(k) ==
    /\ sellers = {1}
    /\ seller_credits_rows = {1}
    /\ payment_orders = [o \in OrderPayloads |-> PaidOrder]
    /\ seller_credits = [s \in Sellers |-> IF s = 1 THEN DEFAULT_FREE_CREDITS_ON_SIGNUP - k ELSE 0]
    /\ seller_credit_transactions =
          [s \in Sellers |-> IF s = 1 THEN SignupLedger(1, k) ELSE << >>]

Init ==
    /\ \E k \in 0..DEFAULT_FREE_CREDITS_ON_SIGNUP : InitTables(k)
    /\ campaigns = [c \in Campaigns |-> NewCampaign]
    /\ prechecked = {}
    /\ shop_customers = [sh \in Shops |-> [u \in Customers |-> "none"]]
    /\ campaign_deliveries = [c \in Campaigns |-> [u \in Customers |-> NoDelivery]]
    /\ now = 0
    /\ start = [p \in Procs |-> IdleCall]
    /\ grants = 0
    /\ InitIdle

\* ------------------------------------------------------------------------
\* ensure_seller and create_shop transactions in progress
\* ------------------------------------------------------------------------
\* ensure[p].sellers_row: this transaction inserted or updated the sellers row
\* of tg (INSERT ... ON CONFLICT (tg_user_id) DO UPDATE holds the row, or the
\* unique index entry, until the end of the transaction)
SellerRowLocked(p, tg) ==
    /\ ensure[p].pc \in {"seller", "credits", "signup_tx"}
    /\ ensure[p].tg = tg

\* ------------------------------------------------------------------------
\* Row locks held by open start_campaign_sending transactions
\* ------------------------------------------------------------------------
InTx(p) == start[p].pc \in {"locked", "debited"}

\* the campaigns row is locked by SELECT ... FOR UPDATE until the end of the transaction
CampaignRowLocked(c) == \E p \in Procs : InTx(p) /\ start[p].c = c

\* the seller_credits row is locked by the UPDATE until the end of the transaction
CreditsRowLocked(s) ==
    \E p \in Procs : start[p].pc = "debited" /\ SellerOfShop(ShopOf(start[p].c)) = s

\* ------------------------------------------------------------------------
\* Ledger
\* ------------------------------------------------------------------------
ensure_seller(tg) ==
    /\ sellers' = sellers \cup {tg}
    /\ IF tg \in seller_credits_rows
       THEN UNCHANGED <<seller_credits, seller_credit_transactions, seller_credits_rows, payment_orders>>
       ELSE /\ seller_credits_rows' = seller_credits_rows \cup {tg}
            /\ seller_credits' = [seller_credits EXCEPT ![tg] = DEFAULT_FREE_CREDITS_ON_SIGNUP]
            /\ seller_credit_transactions' =
                  [seller_credit_transactions EXCEPT ![tg] =
                      Append(@, TxRow(tg, DEFAULT_FREE_CREDITS_ON_SIGNUP, "free_signup",
                                      NoCampaign, DEFAULT_FREE_CREDITS_ON_SIGNUP))]
    /\ \A p \in Procs : ~SellerRowLocked(p, tg)
    /\ UNCHANGED <<campaigns, prechecked, shop_customers, campaign_deliveries,
                   now, start, grants,
                   payment, worker, channel_sends, crashes, backoff_call, completed_notified, seller_inbox, delivery_id, send_batch_size, reschedule_call, ensure, payment_orders>>

\* add_seller_credits(seller_id, delta, reason) as called by the admin grant
add_seller_credits(s, delta, reason) ==
    /\ grants < MaxGrants
    /\ delta # 0
    /\ s \in sellers
    /\ s \in seller_credits_rows
    /\ ~CreditsRowLocked(s)
    /\ LET new_balance == seller_credits[s] + delta
       IN  /\ seller_credits' = [seller_credits EXCEPT ![s] = new_balance]
           /\ seller_credit_transactions' =
                 [seller_credit_transactions EXCEPT ![s] =
                     Append(@, TxRow(s, delta, reason, NoCampaign, new_balance))]
    /\ grants' = grants + 1
    /\ UNCHANGED <<sellers, campaigns, prechecked, shop_customers,
                   campaign_deliveries, now, start,
                   payment, worker, channel_sends, crashes, backoff_call, completed_notified, seller_inbox, delivery_id, send_batch_size, reschedule_call, ensure, seller_credits_rows, payment_orders>>

\* ------------------------------------------------------------------------
\* Campaign payment (legacy invoice flow)
\* ------------------------------------------------------------------------
\* variant: the join forgets the ownership condition
CampaignForSellerAnySeller(tg, c) == tg \in sellers

\* get_campaign_for_seller / the ownership join of start_campaign_sending:
\* campaigns JOIN shops JOIN sellers WHERE s.tg_user_id = tg AND c.id = c
CampaignForSeller(tg, c) ==
    /\ tg \in sellers
    /\ SellerOfShop(ShopOf(c)) = tg

\* pre_checkout: the invoice of a campaign is approved only for a draft
pre_checkout(tg, c) ==
    /\ IF CampaignForSeller(tg, c) /\ campaigns[c].status \in {"draft", "unpaid"}
       THEN prechecked' = prechecked \cup {<<tg, c>>}
       ELSE UNCHANGED prechecked
    /\ UNCHANGED <<sellers, seller_credits, seller_credit_transactions, campaigns,
                   shop_customers, campaign_deliveries, now, start, grants,
                   payment, worker, channel_sends, crashes, backoff_call, completed_notified, seller_inbox, delivery_id, send_batch_size, reschedule_call, ensure, seller_credits_rows, payment_orders>>

\* mark_campaign_paid: UPDATE campaigns SET status='paid' WHERE id = c
mark_campaign_paid(c) == [campaigns EXCEPT ![c].status = "paid"]

\* successful_payment with payload campaign:<c>; Telegram delivers it after
\* an approved pre_checkout and may deliver it again
successful_payment(tg, c) ==
    /\ <<tg, c>> \in prechecked
    /\ ~CampaignRowLocked(c)
    /\ IF CampaignForSeller(tg, c)
       THEN campaigns' = mark_campaign_paid(c)
       ELSE UNCHANGED campaigns
    /\ UNCHANGED <<sellers, seller_credits, seller_credit_transactions, prechecked,
                   shop_customers, campaign_deliveries, now, start, grants,
                   payment, worker, channel_sends, crashes, backoff_call, completed_notified, seller_inbox, delivery_id, send_batch_size, reschedule_call, ensure, seller_credits_rows, payment_orders>>

\* a draft or paid campaign is canceled by an external actor
CancelCampaign(c) ==
    /\ campaigns[c].status \in {"draft", "paid"}
    /\ ~CampaignRowLocked(c)
    /\ campaigns' = [campaigns EXCEPT ![c].status = "canceled"]
    /\ UNCHANGED <<sellers, seller_credits, seller_credit_transactions, prechecked,
                   shop_customers, campaign_deliveries, now, start, grants,
                   payment, worker, channel_sends, crashes, backoff_call, completed_notified, seller_inbox, delivery_id, send_batch_size, reschedule_call, ensure, seller_credits_rows, payment_orders>>

\* ------------------------------------------------------------------------
\* Audience
\* ------------------------------------------------------------------------
subscribe_customer_to_shop(sh, u) ==
    /\ shop_customers' = [shop_customers EXCEPT ![sh][u] = "subscribed"]
    /\ UNCHANGED <<sellers, seller_credits, seller_credit_transactions, campaigns,
                   prechecked, campaign_deliveries, now, start, grants,
                   payment, worker, channel_sends, crashes, backoff_call, completed_notified, seller_inbox, delivery_id, send_batch_size, reschedule_call, ensure, seller_credits_rows, payment_orders>>

unsubscribe_customer_from_shop(sh, u) ==
    /\ shop_customers' = [shop_customers EXCEPT ![sh][u] = "unsubscribed"]
    /\ UNCHANGED <<sellers, seller_credits, seller_credit_transactions, campaigns,
                   prechecked, campaign_deliveries, now, start, grants,
                   payment, worker, channel_sends, crashes, backoff_call, completed_notified, seller_inbox, delivery_id, send_batch_size, reschedule_call, ensure, seller_credits_rows, payment_orders>>

\* ------------------------------------------------------------------------
\* Start: start_campaign_sending(seller_tg_user_id, campaign_id)
\* ------------------------------------------------------------------------
\* variant: a completed campaign is not recognised as started
AlreadyStartedStatusNoCompleted(status) == status \in {"sending", "sent"}

AlreadyStartedStatus(status) == status \in {"sending", "completed", "sent"}

\* variant: only the other spelling is recognised
InvalidStatusOtherSpelling(status) == status \in {"cancelled"}

InvalidStatus(status) == status \in {"canceled", "cancelled"}

\* variant: the UPDATE has no balance condition
DebitMatchesAnyBalance(s) == s \in sellers

\* variant: the balance condition is off by one
DebitMatchesZeroBalance(s) == s \in sellers /\ seller_credits[s] >= 0

\* the conditional UPDATE seller_credits ... WHERE seller_id = s AND balance > 0
DebitMatches(s) == s \in sellers /\ seller_credits[s] > 0

\* variant: the balance read before the UPDATE is returned
DebitedBalanceStale(s) == seller_credits[s]

\* SET balance = balance - 1 ... RETURNING balance
DebitedBalance(s) == seller_credits[s] - 1

\* variant: a plain SELECT, which never waits
CampaignRowAvailableNoLock(c) == TRUE

\* FOR UPDATE: the SELECT waits while another transaction holds the row
CampaignRowAvailable(c) == ~CampaignRowLocked(c)

Finish(p, result) ==
    start' = [start EXCEPT ![p] = [pc |-> "idle", tg |-> start[p].tg, c |-> start[p].c,
                                   res |-> result, ret |-> 0, new_balance |-> 0,
                                   tx_now |-> 0]]

\* the seller presses "send now": campaign_send calls start_campaign_sending
StartCall(p, tg, c) ==
    /\ start[p].pc = "idle"
    /\ start' = [start EXCEPT ![p] = [pc |-> "called", tg |-> tg, c |-> c,
                                      res |-> "none", ret |-> 0, new_balance |-> 0,
                                      tx_now |-> 0]]
    /\ UNCHANGED <<sellers, seller_credits, seller_credit_transactions, campaigns,
                   prechecked, shop_customers, campaign_deliveries, now, grants,
                   payment, worker, channel_sends, crashes, backoff_call, completed_notified, seller_inbox, delivery_id, send_batch_size, reschedule_call, ensure, seller_credits_rows, payment_orders>>

\* SELECT ... FOR UPDATE of the campaign row and the status checks
StartBegin(p) ==
    /\ start[p].pc = "called"
    /\ LET tg == start[p].tg
           c == start[p].c
       IN  IF ~CampaignForSeller(tg, c)
           THEN Finish(p, "campaign_not_found")
           ELSE /\ CampaignRowAvailable(c)
                /\ IF AlreadyStartedStatus(campaigns[c].status)
                   THEN Finish(p, "campaign_already_started")
                   ELSE IF InvalidStatus(campaigns[c].status)
                   THEN Finish(p, "campaign_invalid_status")
                   ELSE start' = [start EXCEPT ![p].pc = "locked", ![p].tx_now = now]
    /\ UNCHANGED <<sellers, seller_credits, seller_credit_transactions, campaigns,
                   prechecked, shop_customers, campaign_deliveries, now, grants,
                   payment, worker, channel_sends, crashes, backoff_call, completed_notified, seller_inbox, delivery_id, send_batch_size, reschedule_call, ensure, seller_credits_rows, payment_orders>>

\* consume 1 credit: conditional UPDATE, no_credits when no row matches
StartDebit(p) ==
    /\ start[p].pc = "locked"
    /\ LET s == SellerOfShop(ShopOf(start[p].c))
       IN  /\ ~CreditsRowLocked(s)
           /\ IF DebitMatches(s)
              THEN start' = [start EXCEPT ![p].pc = "debited",
                                          ![p].new_balance = DebitedBalance(s)]
              ELSE Finish(p, "no_credits")
    /\ UNCHANGED <<sellers, seller_credits, seller_credit_transactions, campaigns,
                   prechecked, shop_customers, campaign_deliveries, now, grants,
                   payment, worker, channel_sends, crashes, backoff_call, completed_notified, seller_inbox, delivery_id, send_batch_size, reschedule_call, ensure, seller_credits_rows, payment_orders>>

\* variant: ON CONFLICT ... DO UPDATE, which resets the rows that exist
EnqueueDeliveriesOverwrite(c, tx_now) ==
    [u \in Customers |->
        IF shop_customers[ShopOf(c)][u] = "subscribed"
        THEN [status |-> "pending", attempt_count |-> 0, next_attempt_at |-> tx_now]
        ELSE campaign_deliveries[c][u]]

\* INSERT ... SELECT ... ON CONFLICT (campaign_id, customer_id) DO NOTHING;
\* now() is the time at which the transaction began
EnqueueDeliveries(c, tx_now) ==
    [u \in Customers |->
        IF /\ shop_customers[ShopOf(c)][u] = "subscribed"
           /\ campaign_deliveries[c][u].status = "none"
        THEN [status |-> "pending", attempt_count |-> 0, next_attempt_at |-> tx_now]
        ELSE campaign_deliveries[c][u]]

CountDeliveries(rows) == Cardinality({u \in Customers : rows[u].status # "none"})

\* ledger row, enqueue, recipient count, status update, commit
StartCommit(p) ==
    /\ start[p].pc = "debited"
    /\ LET c == start[p].c
           s == SellerOfShop(ShopOf(c))
           new_balance == start[p].new_balance
           rows == EnqueueDeliveries(c, start[p].tx_now)
           total_i == CountDeliveries(rows)
       IN  /\ seller_credits' = [seller_credits EXCEPT ![s] = new_balance]
           /\ seller_credit_transactions' =
                 [seller_credit_transactions EXCEPT ![s] =
                     Append(@, TxRow(s, -1, "campaign_send", c, new_balance))]
           /\ campaign_deliveries' = [campaign_deliveries EXCEPT ![c] = rows]
           /\ campaigns' = [campaigns EXCEPT ![c] =
                 [status |-> "sending", total_recipients |-> total_i,
                  sent_count |-> 0, failed_count |-> 0, blocked_count |-> 0]]
           /\ start' = [start EXCEPT ![p] =
                 [pc |-> "idle", tg |-> start[p].tg, c |-> c, res |-> "ok",
                  ret |-> total_i, new_balance |-> 0, tx_now |-> 0]]
    /\ UNCHANGED <<sellers, prechecked, shop_customers, now, grants,
                   payment, worker, channel_sends, crashes, backoff_call, completed_notified, seller_inbox, delivery_id, send_batch_size, reschedule_call, ensure, seller_credits_rows, payment_orders>>

\* variant: every statement commits by itself, so the debit made before the
\* failing statement stays
RolledBackCreditsAutocommit(p) ==
    [seller_credits EXCEPT ![SellerOfShop(ShopOf(start[p].c))] = start[p].new_balance]

\* async with conn.transaction(): an exception raised inside the block rolls
\* back every statement of the block, the debit included
RolledBackCredits(p) == seller_credits

\* a statement after the debit raises (the ledger INSERT, the enqueue, the
\* count or the status UPDATE): the transaction is rolled back, the locks are
\* released and the exception reaches the caller
StartAbort(p) ==
    /\ start[p].pc = "debited"
    /\ seller_credits' = RolledBackCredits(p)
    /\ Finish(p, "error")
    /\ UNCHANGED <<sellers, seller_credit_transactions, campaigns,
                   prechecked, shop_customers, campaign_deliveries, now, grants,
                   payment, worker, channel_sends, crashes, backoff_call,
                   completed_notified, seller_inbox, delivery_id, send_batch_size, reschedule_call, ensure, seller_credits_rows, payment_orders>>

\* ------------------------------------------------------------------------
\* Credit purchases: successful_payment (credits_pack) and
\* pay_check_and_fulfill_cb (hub order)
\* ------------------------------------------------------------------------
\* qty of the payload credits_pack:<qty> paid by a charge, of the pack_code of
\* a hub order; both handlers accept 1, 3 and 10
PackQty(key) == IF key = "ch_a" THEN 1 ELSE 3

PackReason(kind, key) ==
    IF kind = "hub_order" THEN "credits_purchase_hub"
    ELSE IF PackQty(key) = 1 THEN "payment_pack_1" ELSE "payment_pack_3"

\* the row add_seller_credits inserts for a purchase
PaymentTxRow(s, kind, key, bal) ==
    [TxRow(s, PackQty(key), PackReason(kind, key), NoCampaign, bal) EXCEPT
        !.tg_payment_charge_id = IF kind = "credits_pack" THEN key ELSE "none",
        !.invoice_payload = IF kind = "hub_order" THEN key ELSE "credits_pack"]

\* variant: the lookup compares another column, which never holds the charge id
has_seller_credit_tx_by_provider_charge_id(s, tg_payment_charge_id) ==
    /\ tg_payment_charge_id # "none"
    /\ \E i \in DOMAIN seller_credit_transactions[s] :
          seller_credit_transactions[s][i].invoice_payload = tg_payment_charge_id

has_seller_credit_tx_by_tg_charge_id(s, tg_payment_charge_id) ==
    /\ tg_payment_charge_id # "none"
    /\ \E i \in DOMAIN seller_credit_transactions[s] :
          seller_credit_transactions[s][i].tg_payment_charge_id = tg_payment_charge_id

\* the lookup of pay_check_and_fulfill_cb, by seller and invoice payload
has_seller_credit_tx_by_invoice_payload(s, invoice_payload) ==
    \E i \in DOMAIN seller_credit_transactions[s] :
        seller_credit_transactions[s][i].invoice_payload = invoice_payload

\* a payment confirmation arrives: Telegram delivers (or delivers again) a
\* successful_payment update, or the seller presses "check payment"
PaymentReceived(h, kind, tg, key) ==
    /\ payment[h].pc = "idle"
    /\ payment' = [payment EXCEPT ![h] =
          [pc |-> "received", kind |-> kind, tg |-> tg, key |-> key,
           already |-> FALSE, res |-> "none", balance |-> 0, charge |-> "none"]]
    /\ UNCHANGED <<sellers, seller_credits, seller_credit_transactions, campaigns,
                   prechecked, shop_customers, campaign_deliveries, now, start, grants,
                   worker, channel_sends, crashes, backoff_call, completed_notified, seller_inbox, delivery_id, send_batch_size, reschedule_call, ensure, seller_credits_rows, payment_orders>>

\* seller_id = await ensure_seller(pool, tg_id)
PaymentEnsureSeller(h) ==
    /\ payment[h].pc = "received"
    /\ LET tg == payment[h].tg
       IN  /\ sellers' = sellers \cup {tg}
           /\ IF tg \in seller_credits_rows
              THEN UNCHANGED <<seller_credits, seller_credit_transactions, seller_credits_rows, payment_orders>>
              ELSE /\ seller_credits_rows' = seller_credits_rows \cup {tg}
                   /\ seller_credits' =
                         [seller_credits EXCEPT ![tg] = DEFAULT_FREE_CREDITS_ON_SIGNUP]
                   /\ seller_credit_transactions' =
                         [seller_credit_transactions EXCEPT ![tg] =
                             Append(@, TxRow(tg, DEFAULT_FREE_CREDITS_ON_SIGNUP, "free_signup",
                                             NoCampaign, DEFAULT_FREE_CREDITS_ON_SIGNUP))]
    /\ payment' = [payment EXCEPT ![h].pc = "ensured"]
    /\ UNCHANGED <<campaigns, prechecked, shop_customers, campaign_deliveries, now,
                   start, grants, worker, channel_sends, crashes, backoff_call, completed_notified, seller_inbox, delivery_id, send_batch_size, reschedule_call, ensure, payment_orders>>

\* already = await has_seller_credit_tx_by_...(pool, seller_id, key)
PaymentCheck(h) ==
    /\ payment[h].pc = "ensured"
    /\ payment' = [payment EXCEPT
          ![h].pc = "checked",
          ![h].already =
              IF payment[h].kind = "credits_pack"
              THEN has_seller_credit_tx_by_tg_charge_id(payment[h].tg, payment[h].key)
              ELSE has_seller_credit_tx_by_invoice_payload(payment[h].tg, payment[h].key)]
    /\ UNCHANGED <<sellers, seller_credits, seller_credit_transactions, campaigns,
                   prechecked, shop_customers, campaign_deliveries, now, start, grants,
                   worker, channel_sends, crashes, backoff_call, completed_notified, seller_inbox, delivery_id, send_batch_size, reschedule_call, ensure, seller_credits_rows, payment_orders>>

\* if already: answer with get_seller_credits; else add_seller_credits
PaymentFinish(h) ==
    /\ payment[h].pc = "checked"
    /\ LET tg == payment[h].tg
           new_balance == seller_credits[tg] + PackQty(payment[h].key)
       IN  IF payment[h].already
           THEN /\ payment' = [payment EXCEPT ![h].pc = "idle", ![h].res = "already",
                                              ![h].balance = seller_credits[tg]]
                /\ UNCHANGED <<seller_credits, seller_credit_transactions>>
           ELSE /\ ~CreditsRowLocked(tg)
                /\ seller_credits' = [seller_credits EXCEPT ![tg] = new_balance]
                /\ seller_credit_transactions' =
                      [seller_credit_transactions EXCEPT ![tg] =
                          Append(@, PaymentTxRow(tg, payment[h].kind, payment[h].key,
                                                 new_balance))]
                /\ payment' = [payment EXCEPT ![h].pc = "idle", ![h].res = "credited",
                                              ![h].balance = new_balance]
    /\ UNCHANGED <<sellers, campaigns, prechecked, shop_customers, campaign_deliveries,
                   now, start, grants, worker, channel_sends, crashes, backoff_call, completed_notified, seller_inbox, delivery_id, send_batch_size, reschedule_call, ensure, seller_credits_rows, payment_orders>>

\* ------------------------------------------------------------------------
\* Delivery queue and worker loop
\* ------------------------------------------------------------------------
DeliveryKeys == Campaigns \X Customers

OutcomeSet ==
    {[kind |-> k, n |-> 0] : k \in Outcomes \ {"retry_after"}}
        \cup {[kind |-> "retry_after", n |-> n] : n \in RetryAfterValues}

\* variant: the WHERE clause without the join condition on the campaign
EligibleAnyCampaign ==
    {k \in DeliveryKeys :
        /\ campaign_deliveries[k[1]][k[2]].status = "pending"
        /\ campaign_deliveries[k[1]][k[2]].next_attempt_at <= now}

\* WHERE d.status='pending' AND d.next_attempt_at <= now() AND c.status='sending'
Eligible ==
    {k \in DeliveryKeys :
        /\ campaign_deliveries[k[1]][k[2]].status = "pending"
        /\ campaign_deliveries[k[1]][k[2]].next_attempt_at <= now
        /\ campaigns[k[1]].status = "sending"}

\* ORDER BY d.next_attempt_at ASC, d.id ASC
SortsBefore(x, y) ==
    \/ campaign_deliveries[x[1]][x[2]].next_attempt_at
          < campaign_deliveries[y[1]][y[2]].next_attempt_at
    \/ /\ campaign_deliveries[x[1]][x[2]].next_attempt_at
             = campaign_deliveries[y[1]][y[2]].next_attempt_at
       /\ delivery_id[x[1]][x[2]] < delivery_id[y[1]][y[2]]

\* if batch_size <= 0: return []; SELECT ... ORDER BY d.next_attempt_at ASC,
\* d.id ASC ... LIMIT batch_size
lease_due_deliveries(batch_size) ==
    IF batch_size <= 0 THEN {{}}
    ELSE {B \in SUBSET Eligible :
            /\ Cardinality(B) = Min2(batch_size, Cardinality(Eligible))
            /\ \A x \in B, y \in Eligible \ B : SortsBefore(x, y)}

\* lease_due_deliveries: attempt_count + 1, next_attempt_at = now + lease
LeasedRow(row) ==
    [row EXCEPT !.attempt_count = row.attempt_count + 1,
                !.next_attempt_at = now + LeaseSeconds]

\* variant: the reschedule touches only a row that is still pending
reschedule_pending_delivery(row, next_attempt_in_seconds) ==
    IF row.status = "pending"
    THEN [row EXCEPT !.next_attempt_at = now + Max2(1, next_attempt_in_seconds)]
    ELSE row

\* variant: the reschedule counts as an attempt
reschedule_counted_delivery(row, next_attempt_in_seconds) ==
    [row EXCEPT !.status = "pending", !.attempt_count = @ + 1,
                !.next_attempt_at = now + Max2(1, next_attempt_in_seconds)]

\* reschedule_delivery(delivery_id, next_attempt_in_seconds)
reschedule_delivery(row, next_attempt_in_seconds) ==
    [row EXCEPT !.status = "pending",
                !.next_attempt_at = now + Max2(1, next_attempt_in_seconds)]

\* _process_delivery: the queue action taken for one leased job
process_delivery(row, outcome) ==
    CASE outcome.kind = "ok" -> [row EXCEPT !.status = "sent"]
      [] outcome.kind = "retry_after" -> reschedule_delivery(row, Max2(1, outcome.n))
      [] outcome.kind = "forbidden" -> [row EXCEPT !.status = "blocked"]
      [] outcome.kind = "bad_request" -> [row EXCEPT !.status = "failed"]
      [] OTHER -> reschedule_delivery(row, calc_backoff_seconds(row.attempt_count))

CountOutcome(B, o, c, kind) ==
    Cardinality({k \in B : k[1] = c /\ o[k].kind = kind})

\* variant: the candidates are all sending campaigns, pending rows or not
finalize_sending_campaigns(camps, dlv) ==
    [c \in Campaigns |->
        IF camps[c].status = "sending"
        THEN [camps[c] EXCEPT !.status = "completed"]
        ELSE camps[c]]

\* WITH candidates AS (...): sending campaigns without a pending delivery
FinalizeCandidates(camps, dlv) ==
    {c \in Campaigns :
        /\ camps[c].status = "sending"
        /\ ~\E u \in Customers : dlv[c][u].status = "pending"}

\* RETURNING (SELECT COUNT(*) FROM candidates); return int(row or 0)
FinalizeCount(camps, dlv) == Cardinality(FinalizeCandidates(camps, dlv))

\* finalize_completed_campaigns: sending and no pending delivery -> completed
finalize_completed_campaigns(camps, dlv) ==
    [c \in Campaigns |->
        IF /\ camps[c].status = "sending"
           /\ ~\E u \in Customers : dlv[c][u].status = "pending"
        THEN [camps[c] EXCEPT !.status = "completed"]
        ELSE camps[c]]

\* one iteration of the worker loop of main(): lease a batch, process every
\* job, then run the completion detector
WorkerIteration ==
    \E B \in lease_due_deliveries(BatchSize) :
    \E o \in [B -> OutcomeSet] :
       LET dlv == [c \in Campaigns |-> [u \in Customers |->
                      IF <<c, u>> \in B
                      THEN process_delivery(LeasedRow(campaign_deliveries[c][u]), o[<<c, u>>])
                      ELSE campaign_deliveries[c][u]]]
           camps == [c \in Campaigns |->
                      [campaigns[c] EXCEPT
                          !.sent_count = @ + CountOutcome(B, o, c, "ok"),
                          !.blocked_count = @ + CountOutcome(B, o, c, "forbidden"),
                          !.failed_count = @ + CountOutcome(B, o, c, "bad_request")]]
       IN  /\ \A k \in B : ~CampaignRowLocked(k[1])
           /\ campaign_deliveries' = dlv
           /\ campaigns' = finalize_completed_campaigns(camps, dlv)
           /\ UNCHANGED <<sellers, seller_credits, seller_credit_transactions,
                          prechecked, shop_customers, now, start, grants,
                   payment, worker, channel_sends, crashes, backoff_call, completed_notified, seller_inbox, delivery_id, send_batch_size, reschedule_call, ensure, seller_credits_rows, payment_orders>>

\* the database clock advances
Tick ==
    /\ now < MaxNow
    /\ now' = now + 1
    /\ UNCHANGED <<sellers, seller_credits, seller_credit_transactions, campaigns,
                   prechecked, shop_customers, campaign_deliveries, start, grants,
                   payment, worker, channel_sends, crashes, backoff_call, completed_notified, seller_inbox, delivery_id, send_batch_size, reschedule_call, ensure, seller_credits_rows, payment_orders>>

\* ------------------------------------------------------------------------
\* Worker processes, step by step: lease_due_deliveries as a transaction,
\* _process_delivery as a send followed by the recording of its outcome
\* ------------------------------------------------------------------------
\* rows locked by the SELECT ... FOR UPDATE of an open lease transaction; the
\* statement has no OF clause, so it locks the joined campaign rows as well
DeliveryRowLocked(k) ==
    \E w \in Workers : worker[w].pc = "selected" /\ k \in worker[w].rows

LeaseCampaignLocked(c) ==
    \E w \in Workers : worker[w].pc = "selected" /\ \E k \in worker[w].rows : k[1] = c

\* variant: a plain SELECT, which takes and honours no lock
LeaseCandidatesNoLock == Eligible

\* the SELECT of a lease joins customers too: FOR UPDATE without OF locks the
\* customers row of every row it returns
LeaseCustomerLocked(u) ==
    \E w \in Workers : worker[w].pc = "selected" /\ \E k \in worker[w].rows : k[2] = u

\* the rows the SELECT of a lease can return: eligible and not locked
\* (SKIP LOCKED passes over a row when it, its campaign row or its customers
\* row is locked)
LeaseCandidates ==
    {k \in Eligible :
        /\ ~DeliveryRowLocked(k)
        /\ ~LeaseCampaignLocked(k[1])
        /\ ~LeaseCustomerLocked(k[2])
        /\ ~CampaignRowLocked(k[1])}

\* variant: ORDER BY d.next_attempt_at alone, rows of equal next_attempt_at
\* in any order
LeaseSelectionNoTieBreak(cands, batch_size) ==
    IF batch_size <= 0 THEN {{}}
    ELSE {B \in SUBSET cands :
            /\ Cardinality(B) = Min2(batch_size, Cardinality(cands))
            /\ \A x \in B, y \in cands \ B :
                  campaign_deliveries[x[1]][x[2]].next_attempt_at
                      <= campaign_deliveries[y[1]][y[2]].next_attempt_at}

\* if batch_size <= 0: return []; otherwise the SELECT ... ORDER BY ... FOR
\* UPDATE SKIP LOCKED LIMIT batch_size over the candidates
LeaseSelection(cands, batch_size) ==
    IF batch_size <= 0 THEN {{}}
    ELSE {B \in SUBSET cands :
            /\ Cardinality(B) = Min2(batch_size, Cardinality(cands))
            /\ \A x \in B, y \in cands \ B : SortsBefore(x, y)}

\* variant: the lease moves next_attempt_at and does not count the attempt
LeasedRowAtNoCount(row, until) == [row EXCEPT !.next_attempt_at = until]

\* variant: the lease is a status of its own, which no clock ends
LeasedRowAtNoExpiry(row, until) ==
    [row EXCEPT !.attempt_count = @ + 1, !.status = "leased"]

\* variant: every lease counts as the first attempt
LeasedRowAtFirstAttempt(row, until) ==
    [row EXCEPT !.attempt_count = 1, !.next_attempt_at = until]

\* SET attempt_count = attempt_count + 1, next_attempt_at = now() + lease
LeasedRowAt(row, until) ==
    [row EXCEPT !.attempt_count = @ + 1, !.next_attempt_at = until]

\* the first statement of lease_due_deliveries
LeaseSelect(w) ==
    /\ worker[w].pc = "idle"
    /\ \E B \in LeaseSelection(LeaseCandidates, send_batch_size[w]) :
          worker' = [worker EXCEPT ![w] =
              [IdleWorker EXCEPT !.pc = IF B = {} THEN "finalize" ELSE "selected",
                                 !.tx_now = now, !.rows = B]]
    /\ UNCHANGED <<sellers, seller_credits, seller_credit_transactions, campaigns,
                   prechecked, shop_customers, campaign_deliveries, now, start, grants,
                   payment, channel_sends, crashes, backoff_call, completed_notified, seller_inbox, delivery_id, send_batch_size, reschedule_call, ensure, seller_credits_rows, payment_orders>>

\* the UPDATE of lease_due_deliveries, the commit and the returned items
LeaseCommit(w) ==
    /\ worker[w].pc = "selected"
    /\ LET B == worker[w].rows
           until == worker[w].tx_now + LeaseSeconds
       IN  /\ campaign_deliveries' =
                 [c \in Campaigns |-> [u \in Customers |->
                     IF <<c, u>> \in B
                     THEN LeasedRowAt(campaign_deliveries[c][u], until)
                     ELSE campaign_deliveries[c][u]]]
           /\ worker' = [worker EXCEPT ![w] =
                 [IdleWorker EXCEPT
                     !.pc = "processing",
                     !.items = {[c |-> k[1], u |-> k[2],
                                 attempt |-> campaign_deliveries[k[1]][k[2]].attempt_count + 1,
                                 lease_until |-> until] : k \in B}]]
    /\ UNCHANGED <<sellers, seller_credits, seller_credit_transactions, campaigns,
                   prechecked, shop_customers, now, start, grants,
                   payment, channel_sends, crashes, backoff_call, completed_notified, seller_inbox, delivery_id, send_batch_size, reschedule_call, ensure, seller_credits_rows, payment_orders>>

\* the outcomes after which the delivery stays pending
RetryOutcomes == {"retry_after", "transient", "ok_unrecorded"}

\* _process_delivery up to the answer of the channel: bot.send_message returns
\* or raises; "ok_unrecorded" is a send that succeeded and whose
\* mark_delivery_sent then raises
SendAnswer(w, item, outcome) ==
    /\ worker[w].pc = "processing"
    /\ item \in worker[w].items
    /\ worker' = [worker EXCEPT ![w].pc = "sent", ![w].item = item,
                                ![w].items = @ \ {item},
                                ![w].outcome = outcome.kind, ![w].n = outcome.n]
    /\ channel_sends' =
          IF outcome.kind \in {"ok", "ok_unrecorded"}
          THEN [channel_sends EXCEPT ![item.c][item.u] = @ + 1]
          ELSE channel_sends
    /\ UNCHANGED <<sellers, seller_credits, seller_credit_transactions, campaigns,
                   prechecked, shop_customers, campaign_deliveries, now, start, grants,
                   payment, crashes, backoff_call, completed_notified, seller_inbox, delivery_id, send_batch_size, reschedule_call, ensure, seller_credits_rows, payment_orders>>

\* the same against a channel that stops failing a delivery at attempt
\* MaxAttempts
SendMessage(w, item, outcome) ==
    /\ outcome.kind \in RetryOutcomes => item.attempt < MaxAttempts
    /\ SendAnswer(w, item, outcome)

\* variant: a bad request is retried like a network error
RecordedRowRetryBadRequest(row, kind, n, attempt) ==
    CASE kind = "ok" -> [row EXCEPT !.status = "sent"]
      [] kind = "retry_after" -> reschedule_delivery(row, Max2(1, n))
      [] kind = "forbidden" -> [row EXCEPT !.status = "blocked"]
      [] OTHER -> reschedule_delivery(row, calc_backoff_seconds(attempt))

\* the queue action _process_delivery takes for the outcome of the send
RecordedRow(row, kind, n, attempt) ==
    CASE kind = "ok" -> [row EXCEPT !.status = "sent"]
      [] kind = "retry_after" -> reschedule_delivery(row, Max2(1, n))
      [] kind = "forbidden" -> [row EXCEPT !.status = "blocked"]
      [] kind = "bad_request" -> [row EXCEPT !.status = "failed"]
      [] OTHER -> reschedule_delivery(row, calc_backoff_seconds(attempt))

\* the counter UPDATE of mark_delivery_sent / _blocked / _failed
RecordedCampaign(camp, kind) ==
    CASE kind = "ok" -> [camp EXCEPT !.sent_count = @ + 1]
      [] kind = "forbidden" -> [camp EXCEPT !.blocked_count = @ + 1]
      [] kind = "bad_request" -> [camp EXCEPT !.failed_count = @ + 1]
      [] OTHER -> camp

\* the rest of _process_delivery: mark_delivery_* or reschedule_delivery; the
\* UPDATEs wait while a lease transaction holds the row or the campaign row
RecordOutcome(w) ==
    /\ worker[w].pc = "sent"
    /\ LET c == worker[w].item.c
           u == worker[w].item.u
           kind == worker[w].outcome
       IN  /\ ~DeliveryRowLocked(<<c, u>>)
           /\ kind \in {"ok", "forbidden", "bad_request"}
                 => ~LeaseCampaignLocked(c) /\ ~CampaignRowLocked(c)
           /\ campaign_deliveries' =
                 [campaign_deliveries EXCEPT ![c][u] =
                     RecordedRow(@, kind, worker[w].n, worker[w].item.attempt)]
           /\ campaigns' = [campaigns EXCEPT ![c] = RecordedCampaign(@, kind)]
    /\ worker' = [worker EXCEPT
          ![w].pc = IF worker[w].items = {} THEN "finalize" ELSE "processing"]
    /\ UNCHANGED <<sellers, seller_credits, seller_credit_transactions,
                   prechecked, shop_customers, now, start, grants,
                   payment, channel_sends, crashes, backoff_call, completed_notified, seller_inbox, delivery_id, send_batch_size, reschedule_call, ensure, seller_credits_rows, payment_orders>>

\* finalize_completed_campaigns at the end of the iteration
Finalize(w) ==
    /\ worker[w].pc = "finalize"
    /\ \A c \in Campaigns :
          finalize_completed_campaigns(campaigns, campaign_deliveries)[c] # campaigns[c]
             => ~LeaseCampaignLocked(c) /\ ~CampaignRowLocked(c)
    /\ campaigns' = finalize_completed_campaigns(campaigns, campaign_deliveries)
    /\ worker' = [worker EXCEPT ![w] =
          [IdleWorker EXCEPT !.finalized = FinalizeCount(campaigns, campaign_deliveries)]]
    /\ UNCHANGED <<sellers, seller_credits, seller_credit_transactions,
                   prechecked, shop_customers, campaign_deliveries, now, start, grants,
                   payment, channel_sends, crashes, backoff_call, completed_notified, seller_inbox, delivery_id, send_batch_size, reschedule_call, ensure, seller_credits_rows, payment_orders>>

\* finalize_completed_campaigns followed by _notify_completed_campaigns
FinalizeNotify(w) ==
    /\ worker[w].pc = "finalize"
    /\ \A c \in Campaigns :
          finalize_completed_campaigns(campaigns, campaign_deliveries)[c] # campaigns[c]
             => ~LeaseCampaignLocked(c) /\ ~CampaignRowLocked(c)
    /\ campaigns' = finalize_completed_campaigns(campaigns, campaign_deliveries)
    /\ worker' = [worker EXCEPT ![w] =
          [IdleWorker EXCEPT !.pc = "notify",
                             !.finalized = FinalizeCount(campaigns, campaign_deliveries)]]
    /\ UNCHANGED <<sellers, seller_credits, seller_credit_transactions,
                   prechecked, shop_customers, campaign_deliveries, now, start, grants,
                   payment, channel_sends, crashes, backoff_call, completed_notified,
                   seller_inbox, delivery_id, send_batch_size, reschedule_call, ensure, seller_credits_rows, payment_orders>>

\* variant: the listing returns every completed campaign, notified or not
list_completed_campaigns(camps, flags) ==
    {c \in Campaigns : camps[c].status = "completed"}

\* list_unnotified_completed_campaigns: completed and not yet completed_notified
list_unnotified_completed_campaigns(camps, flags) ==
    {c \in Campaigns : camps[c].status = "completed" /\ ~flags[c]}

\* the fields of a listed campaign that the summary is computed from
NoticeItem(c) ==
    [campaign_id |-> c,
     total_recipients |-> campaigns[c].total_recipients,
     sent_count |-> campaigns[c].sent_count,
     failed_count |-> campaigns[c].failed_count,
     blocked_count |-> campaigns[c].blocked_count]

\* variant: everything that was not sent counts as not delivered
not_delivered_unsent(it) == it.total_recipients - it.sent_count

\* not_delivered = max(0, total_recipients - sent_count - failed_count - blocked_count)
not_delivered(it) ==
    Max2(0, it.total_recipients - it.sent_count - it.failed_count - it.blocked_count)

\* the numbers of the message text sent to the seller
Summary(it) ==
    [campaign_id |-> it.campaign_id,
     total_recipients |-> it.total_recipients,
     sent |-> it.sent_count,
     failed |-> it.failed_count,
     blocked |-> it.blocked_count,
     not_delivered |-> not_delivered(it)]

\* items = await list_unnotified_completed_campaigns(pool, limit=50)
NotifyList(w) ==
    /\ worker[w].pc = "notify"
    /\ LET items == {NoticeItem(c) :
                        c \in list_unnotified_completed_campaigns(campaigns,
                                                                  completed_notified)}
       IN  worker' = [worker EXCEPT
              ![w].pc = IF items = {} THEN "idle" ELSE "notifying",
              ![w].listed = items]
    /\ UNCHANGED <<sellers, seller_credits, seller_credit_transactions, campaigns,
                   prechecked, shop_customers, campaign_deliveries, now, start, grants,
                   payment, channel_sends, crashes, backoff_call, completed_notified,
                   seller_inbox, delivery_id, send_batch_size, reschedule_call, ensure, seller_credits_rows, payment_orders>>

\* bot.send_message(seller_tg_user_id, text) for one listed campaign: it
\* returns, or it raises and the exception is logged
NotifySend(w, it, ok) ==
    /\ worker[w].pc = "notifying"
    /\ it \in worker[w].listed
    /\ IF ok
       THEN /\ seller_inbox' =
                  [seller_inbox EXCEPT ![it.campaign_id] = Append(@, Summary(it))]
            /\ worker' = [worker EXCEPT ![w].pc = "notified", ![w].notice = it,
                                        ![w].listed = @ \ {it}]
       ELSE /\ UNCHANGED seller_inbox
            /\ worker' = [worker EXCEPT
                  ![w].pc = IF worker[w].listed = {it} THEN "idle" ELSE "notifying",
                  ![w].notice = it, ![w].outcome = "notify_failed",
                  ![w].listed = @ \ {it}]
    /\ UNCHANGED <<sellers, seller_credits, seller_credit_transactions, campaigns,
                   prechecked, shop_customers, campaign_deliveries, now, start, grants,
                   payment, channel_sends, crashes, backoff_call, completed_notified,
                   delivery_id, send_batch_size, reschedule_call, ensure, seller_credits_rows, payment_orders>>

\* variant: the flag is set for every listed campaign, sent or not
NotifiedFlagsAll(w) ==
    [c \in Campaigns |->
        \/ completed_notified[c]
        \/ c = worker[w].notice.campaign_id
        \/ \E it \in worker[w].listed : it.campaign_id = c]

\* mark_campaign_completed_notified(campaign_id)
NotifiedFlags(w) ==
    [completed_notified EXCEPT ![worker[w].notice.campaign_id] = TRUE]

\* await mark_campaign_completed_notified(pool, campaign_id=campaign_id)
NotifyMark(w) ==
    /\ worker[w].pc = "notified"
    /\ completed_notified' = NotifiedFlags(w)
    /\ worker' = [worker EXCEPT
          ![w].pc = IF worker[w].listed = {} THEN "idle" ELSE "notifying"]
    /\ UNCHANGED <<sellers, seller_credits, seller_credit_transactions, campaigns,
                   prechecked, shop_customers, campaign_deliveries, now, start, grants,
                   payment, channel_sends, crashes, backoff_call, seller_inbox, delivery_id, send_batch_size, reschedule_call, ensure, seller_credits_rows, payment_orders>>

\* main() after an exception left the while loop: the finally block closed the
\* bot session and the pools and the process ended
TerminatedWorker == [IdleWorker EXCEPT !.pc = "terminated"]

\* the store raises in lease_due_deliveries: the call is in no try block of
\* main(); the lease transaction is rolled back
LeaseRaises(w) ==
    /\ worker[w].pc \in {"idle", "selected"}
    /\ worker' = [worker EXCEPT ![w] = TerminatedWorker]
    /\ UNCHANGED <<sellers, seller_credits, seller_credit_transactions, campaigns,
                   prechecked, shop_customers, campaign_deliveries, now, start, grants,
                   payment, channel_sends, crashes, backoff_call, completed_notified,
                   seller_inbox, delivery_id, send_batch_size, reschedule_call, ensure, seller_credits_rows, payment_orders>>

\* the store raises while the outcome of a send is recorded. mark_delivery_sent
\* is inside the try block: its exception is handled by the except Exception
\* branch, which reschedules. The other calls (mark_delivery_blocked,
\* mark_delivery_failed, reschedule_delivery) are made inside except branches:
\* their exception leaves _process_delivery and the for loop of main()
RecordRaises(w) ==
    /\ worker[w].pc = "sent"
    /\ worker' = [worker EXCEPT ![w] =
          IF worker[w].outcome = "ok"
          THEN [worker[w] EXCEPT !.outcome = "ok_unrecorded"]
          ELSE TerminatedWorker]
    /\ UNCHANGED <<sellers, seller_credits, seller_credit_transactions, campaigns,
                   prechecked, shop_customers, campaign_deliveries, now, start, grants,
                   payment, channel_sends, crashes, backoff_call, completed_notified,
                   seller_inbox, delivery_id, send_batch_size, reschedule_call, ensure, seller_credits_rows, payment_orders>>

\* the store raises in finalize_completed_campaigns: neither call of main()
\* is in a try block
FinalizeRaises(w) ==
    /\ worker[w].pc = "finalize"
    /\ worker' = [worker EXCEPT ![w] = TerminatedWorker]
    /\ UNCHANGED <<sellers, seller_credits, seller_credit_transactions, campaigns,
                   prechecked, shop_customers, campaign_deliveries, now, start, grants,
                   payment, channel_sends, crashes, backoff_call, completed_notified,
                   seller_inbox, delivery_id, send_batch_size, reschedule_call, ensure, seller_credits_rows, payment_orders>>

\* finalize_completed_campaigns succeeds and the listing of
\* _notify_completed_campaigns raises: after an empty lease the call is in a
\* try block and the exception is logged, after a batch of items it is not
ListRaises(w) ==
    /\ worker[w].pc = "finalize"
    /\ \A c \in Campaigns :
          finalize_completed_campaigns(campaigns, campaign_deliveries)[c] # campaigns[c]
             => ~LeaseCampaignLocked(c) /\ ~CampaignRowLocked(c)
    /\ campaigns' = finalize_completed_campaigns(campaigns, campaign_deliveries)
    /\ worker' = [worker EXCEPT ![w] =
          IF worker[w].item = NoItem
          THEN [IdleWorker EXCEPT !.outcome = "list_failed"]
          ELSE TerminatedWorker]
    /\ UNCHANGED <<sellers, seller_credits, seller_credit_transactions,
                   prechecked, shop_customers, campaign_deliveries, now, start, grants,
                   payment, channel_sends, crashes, backoff_call, completed_notified,
                   seller_inbox, delivery_id, send_batch_size, reschedule_call, ensure, seller_credits_rows, payment_orders>>

\* the worker process dies and is started again: an open lease transaction is
\* rolled back, the leased items it held are lost
Crash(w) ==
    /\ crashes < MaxCrashes
    /\ worker[w].pc # "idle"
    /\ worker' = [worker EXCEPT ![w] = IdleWorker]
    /\ crashes' = crashes + 1
    /\ UNCHANGED <<sellers, seller_credits, seller_credit_transactions, campaigns,
                   prechecked, shop_customers, campaign_deliveries, now, start, grants,
                   payment, channel_sends, backoff_call, completed_notified, seller_inbox, delivery_id, send_batch_size, reschedule_call, ensure, seller_credits_rows, payment_orders>>

\* the database clock advances
WorkerTick ==
    /\ now < MaxWorkerNow
    /\ now' = now + 1
    /\ UNCHANGED <<sellers, seller_credits, seller_credit_transactions, campaigns,
                   prechecked, shop_customers, campaign_deliveries, start, grants,
                   payment, worker, channel_sends, crashes, backoff_call, completed_notified, seller_inbox, delivery_id, send_batch_size, reschedule_call, ensure, seller_credits_rows, payment_orders>>

\* a timestamp one tick further in the past (the past beyond 0 is not kept)
Earlier(t) == Max2(0, t - 1)

\* the database clock advances without end. Timestamps are kept relative: once
\* now stands at MaxWorkerNow a tick moves every stored timestamp one step
\* into the past instead of moving now.
LiveTick ==
    /\ IF now < MaxWorkerNow
       THEN /\ now' = now + 1
            /\ UNCHANGED <<campaign_deliveries, worker>>
       ELSE /\ now' = now
            /\ campaign_deliveries' =
                  [c \in Campaigns |-> [u \in Customers |->
                      [campaign_deliveries[c][u] EXCEPT !.next_attempt_at = Earlier(@)]]]
            /\ worker' =
                  [w \in Workers |->
                      [worker[w] EXCEPT
                          !.tx_now = Earlier(@),
                          !.item = IF @ = NoItem THEN @
                                   ELSE [@ EXCEPT !.lease_until = Earlier(@)],
                          !.items = {[it EXCEPT !.lease_until = Earlier(@)] : it \in @}]]
    /\ UNCHANGED <<sellers, seller_credits, seller_credit_transactions, campaigns,
                   prechecked, shop_customers, start, grants,
                   payment, channel_sends, crashes, backoff_call, completed_notified, seller_inbox, delivery_id, send_batch_size, reschedule_call, ensure, seller_credits_rows, payment_orders>>

\* ------------------------------------------------------------------------
\* _calc_backoff_seconds called under some settings
\* ------------------------------------------------------------------------
BackoffCall(base, max_seconds, attempt) ==
    /\ backoff_call' = [base |-> base, max |-> max_seconds, attempt |-> attempt,
                        seconds |-> calc_backoff(base, max_seconds, attempt)]
    /\ UNCHANGED <<sellers, seller_credits, seller_credit_transactions, campaigns,
                   prechecked, shop_customers, campaign_deliveries, now, start, grants,
                   payment, worker, channel_sends, crashes, completed_notified,
                   seller_inbox, delivery_id, send_batch_size, reschedule_call, ensure, seller_credits_rows, payment_orders>>

\* ------------------------------------------------------------------------
\* reschedule_delivery called on some row with some delay and error text
\* ------------------------------------------------------------------------
ErrorChars == {"a", "b"}

ErrorTexts == UNION {[1..n -> ErrorChars] : n \in 0..MaxErrorLen}

\* variant: the text is stored as it comes
StoredErrorWhole(error) == error

\* last_error[:5000]
StoredError(error) == SubSeq(error, 1, Min2(Len(error), LastErrorLimit))

\* reschedule_delivery(pool, delivery_id, next_attempt_in_seconds, last_error):
\* one UPDATE of the row with that id (no row when the id does not exist)
RescheduleCall(c, u, delay, error) ==
    /\ campaign_deliveries' =
          IF campaign_deliveries[c][u].status = "none"
          THEN campaign_deliveries
          ELSE [campaign_deliveries EXCEPT ![c][u] = reschedule_delivery(@, delay)]
    /\ reschedule_call' = [c |-> c, u |-> u, delay |-> delay, error |-> error,
                           last_error |-> StoredError(error)]
    /\ UNCHANGED <<sellers, seller_credits, seller_credit_transactions, campaigns,
                   prechecked, shop_customers, now, start, grants,
                   payment, worker, channel_sends, crashes, backoff_call,
                   completed_notified, seller_inbox, delivery_id, send_batch_size, ensure, seller_credits_rows, payment_orders>>

\* ------------------------------------------------------------------------
\* Specifications
\* ------------------------------------------------------------------------
\* Spec: the life of one campaign, from draft to completed, with the worker
\* loop, the clock and the audience
Next ==
    \/ \E tg \in Sellers : ensure_seller(tg)
    \/ \E tg \in Sellers, c \in MainCampaigns : pre_checkout(tg, c)
    \/ \E tg \in Sellers, c \in MainCampaigns : successful_payment(tg, c)
    \/ \E c \in MainCampaigns : CancelCampaign(c)
    \/ \E sh \in Shops, u \in Customers : subscribe_customer_to_shop(sh, u)
    \/ \E sh \in Shops, u \in Customers : unsubscribe_customer_from_shop(sh, u)
    \/ \E p \in MainProcs, tg \in Sellers, c \in MainCampaigns : StartCall(p, tg, c)
    \/ \E p \in MainProcs : StartBegin(p)
    \/ \E p \in MainProcs : StartDebit(p)
    \/ \E p \in MainProcs : StartCommit(p)
    \/ WorkerIteration
    \/ Tick

Spec == Init /\ [][Next]_vars

\* SpecLedger: every writer of the ledger, with two concurrent Start calls on
\* two campaigns, one of which can be paid for again
NextLedger ==
    \/ \E tg \in Sellers : ensure_seller(tg)
    \/ \E s \in Sellers, d \in GrantDeltas : add_seller_credits(s, d, "admin_grant")
    \/ \E tg \in Sellers, c \in MainCampaigns : pre_checkout(tg, c)
    \/ \E tg \in Sellers, c \in MainCampaigns : successful_payment(tg, c)
    \/ \E p \in Procs, tg \in Sellers, c \in Campaigns : StartCall(p, tg, c)
    \/ \E p \in Procs : StartBegin(p)
    \/ \E p \in Procs : StartDebit(p)
    \/ \E p \in Procs : StartCommit(p)

SpecLedger == Init /\ [][NextLedger]_vars

\* SpecStartAbort: SpecLedger with Starts that fail after the debit
NextStartAbort ==
    \/ NextLedger
    \/ \E p \in Procs : StartAbort(p)

SpecStartAbort == Init /\ [][NextStartAbort]_vars

\* SpecTwoStarts: two Start calls of the owner are in flight at once, on the
\* same campaign (a double click) or on two campaigns, and nothing else runs
InitTwoStarts ==
    /\ \E k \in 0..DEFAULT_FREE_CREDITS_ON_SIGNUP : InitTables(k)
    /\ campaigns \in [Campaigns -> {NewCampaign, [NewCampaign EXCEPT !.status = "paid"]}]
    /\ prechecked = {<<SellerOfShop(ShopOf(c)), c>> : c \in {x \in Campaigns : campaigns[x].status = "paid"}}
    /\ shop_customers \in [Shops -> [Customers -> {"none", "subscribed", "unsubscribed"}]]
    /\ campaign_deliveries = [c \in Campaigns |-> [u \in Customers |-> NoDelivery]]
    /\ now = 0
    /\ \E c \in Campaigns :
          start = [p \in Procs |->
                     [IdleCall EXCEPT !.pc = "called", !.tg = 1,
                                      !.c = IF p = 1 THEN 1 ELSE c]]
    /\ grants = 0
    /\ InitIdle

NextTwoStarts ==
    \/ \E p \in Procs : StartBegin(p)
    \/ \E p \in Procs : StartDebit(p)
    \/ \E p \in Procs : StartCommit(p)

SpecTwoStarts == InitTwoStarts /\ [][NextTwoStarts]_vars

\* SpecPaymentsSeq: one handler at a time, so payment confirmations and their
\* redeliveries are handled in sequence
NextPaymentsSeq ==
    \/ \E h \in MainHandlers, tg \in Sellers, key \in Charges :
          PaymentReceived(h, "credits_pack", tg, key)
    \/ \E h \in MainHandlers, tg \in Sellers, key \in OrderPayloads :
          PaymentReceived(h, "hub_order", tg, key)
    \/ \E h \in MainHandlers : PaymentEnsureSeller(h)
    \/ \E h \in MainHandlers : PaymentCheck(h)
    \/ \E h \in MainHandlers : PaymentFinish(h)

SpecPaymentsSeq == Init /\ [][NextPaymentsSeq]_vars

\* SpecPayments: two handler tasks run concurrently on the confirmations of
\* one seller
NextPayments ==
    \/ \E h \in Handlers, tg \in MainSellers, key \in Charges :
          PaymentReceived(h, "credits_pack", tg, key)
    \/ \E h \in Handlers, tg \in MainSellers, key \in OrderPayloads :
          PaymentReceived(h, "hub_order", tg, key)
    \/ \E h \in Handlers : PaymentEnsureSeller(h)
    \/ \E h \in Handlers : PaymentCheck(h)
    \/ \E h \in Handlers : PaymentFinish(h)

SpecPayments == Init /\ [][NextPayments]_vars

\* SpecWorkers: two worker processes after two accepted Starts. Campaign 1 was
\* started with the audience S and is sending; campaign 2 was started with
\* customer 1 as its audience and then marked paid again (mark_campaign_paid
\* does not look at the status), which left its pending row behind.
StartedCampaign(n) ==
    [status |-> "sending", total_recipients |-> n, sent_count |-> 0,
     failed_count |-> 0, blocked_count |-> 0]

PendingRow == [status |-> "pending", attempt_count |-> 0, next_attempt_at |-> 0]

InitWorkers ==
    /\ sellers = {1}
    /\ seller_credits_rows = {1}
    /\ payment_orders = [o \in OrderPayloads |-> PaidOrder]
    /\ seller_credits =
          [s \in Sellers |-> IF s = 1 THEN DEFAULT_FREE_CREDITS_ON_SIGNUP - 2 ELSE 0]
    /\ seller_credit_transactions =
          [s \in Sellers |->
              IF s = 1
              THEN <<TxRow(1, DEFAULT_FREE_CREDITS_ON_SIGNUP, "free_signup", NoCampaign,
                           DEFAULT_FREE_CREDITS_ON_SIGNUP),
                     TxRow(1, -1, "campaign_send", 1, DEFAULT_FREE_CREDITS_ON_SIGNUP - 1),
                     TxRow(1, -1, "campaign_send", 2, DEFAULT_FREE_CREDITS_ON_SIGNUP - 2)>>
              ELSE << >>]
    /\ \E S \in SUBSET Customers :
          /\ shop_customers =
                [sh \in Shops |-> [u \in Customers |->
                    IF u \in S THEN "subscribed"
                    ELSE IF u = 1 THEN "unsubscribed" ELSE "none"]]
          /\ campaigns = [c \in Campaigns |->
                IF c \in MainCampaigns THEN StartedCampaign(Cardinality(S))
                ELSE [StartedCampaign(1) EXCEPT !.status = "paid"]]
          /\ campaign_deliveries = [c \in Campaigns |-> [u \in Customers |->
                IF c \in MainCampaigns
                THEN IF u \in S THEN PendingRow ELSE NoDelivery
                ELSE IF u = 1 THEN PendingRow ELSE NoDelivery]]
    /\ prechecked = {}
    /\ now = 0
    /\ start = [p \in Procs |-> IdleCall]
    /\ grants = 0
    /\ InitIdle

NextWorkers ==
    \/ \E w \in Workers : LeaseSelect(w)
    \/ \E w \in Workers : LeaseCommit(w)
    \/ \E w \in Workers : \E item \in worker[w].items :
          \E outcome \in OutcomeSet \cup {[kind |-> "ok_unrecorded", n |-> 0]} :
             SendMessage(w, item, outcome)
    \/ \E w \in Workers : RecordOutcome(w)
    \/ \E w \in Workers : Finalize(w)
    \/ \E w \in Workers : Crash(w)
    \/ WorkerTick

SpecWorkers == InitWorkers /\ [][NextWorkers]_vars

\* SpecWorkersFair: one worker loop that keeps running (it is restarted after
\* a crash), a clock that keeps advancing and a channel that answers every send
NextWorkersFair ==
    \/ \E w \in MainWorkers : LeaseSelect(w)
    \/ \E w \in MainWorkers : LeaseCommit(w)
    \/ \E w \in MainWorkers : \E item \in worker[w].items :
          \E outcome \in OutcomeSet \cup {[kind |-> "ok_unrecorded", n |-> 0]} :
             SendMessage(w, item, outcome)
    \/ \E w \in MainWorkers : RecordOutcome(w)
    \/ \E w \in MainWorkers : Finalize(w)
    \/ \E w \in MainWorkers : Crash(w)
    \/ LiveTick

WorkerFairness ==
    /\ \A w \in MainWorkers : WF_vars(LeaseSelect(w))
    /\ \A w \in MainWorkers : WF_vars(LeaseCommit(w))
    /\ \A w \in MainWorkers :
          WF_vars(\E item \in worker[w].items :
                     \E outcome \in OutcomeSet \cup {[kind |-> "ok_unrecorded", n |-> 0]} :
                        SendMessage(w, item, outcome))
    /\ \A w \in MainWorkers : WF_vars(RecordOutcome(w))
    /\ \A w \in MainWorkers : WF_vars(Finalize(w))
    /\ WF_vars(LiveTick)

\* the audience of campaign 1 is empty or one customer
InitWorkersFair == InitWorkers /\ campaigns[1].total_recipients <= 1

SpecWorkersFair == InitWorkersFair /\ [][NextWorkersFair]_vars /\ WorkerFairness

\* SpecBackoff: the backoff function over a range of settings and attempts
NextBackoff ==
    \E base \in MinBackoffSetting..MaxBackoffBase,
       max_seconds \in MinBackoffSetting..MaxBackoffMax,
       attempt \in 0..MaxBackoffAttempt :
          BackoffCall(base, max_seconds, attempt)

SpecBackoff == Init /\ [][NextBackoff]_vars

\* SpecNotify: two worker processes on campaigns whose deliveries are all
\* resolved: campaign 1 went to both customers, one row is sent and the other
\* sent, blocked or failed; campaign 2 went to customer 1 and failed
ResolvedCampaign(rows) ==
    [status |-> "sending",
     total_recipients |-> Cardinality({u \in Customers : rows[u].status # "none"}),
     sent_count |-> Cardinality({u \in Customers : rows[u].status = "sent"}),
     failed_count |-> Cardinality({u \in Customers : rows[u].status = "failed"}),
     blocked_count |-> Cardinality({u \in Customers : rows[u].status = "blocked"})]

InitNotify ==
    /\ sellers = {1}
    /\ seller_credits_rows = {1}
    /\ payment_orders = [o \in OrderPayloads |-> PaidOrder]
    /\ seller_credits =
          [s \in Sellers |-> IF s = 1 THEN DEFAULT_FREE_CREDITS_ON_SIGNUP - 2 ELSE 0]
    /\ seller_credit_transactions =
          [s \in Sellers |->
              IF s = 1
              THEN <<TxRow(1, DEFAULT_FREE_CREDITS_ON_SIGNUP, "free_signup", NoCampaign,
                           DEFAULT_FREE_CREDITS_ON_SIGNUP),
                     TxRow(1, -1, "campaign_send", 1, DEFAULT_FREE_CREDITS_ON_SIGNUP - 1),
                     TxRow(1, -1, "campaign_send", 2, DEFAULT_FREE_CREDITS_ON_SIGNUP - 2)>>
              ELSE << >>]
    /\ shop_customers = [sh \in Shops |-> [u \in Customers |-> "subscribed"]]
    /\ \E st \in TerminalStatuses :
          campaign_deliveries = [c \in Campaigns |-> [u \in Customers |->
              IF c \in MainCampaigns \/ u = 1
              THEN [status |-> IF c \notin MainCampaigns THEN "failed"
                               ELSE IF u = 1 THEN "sent" ELSE st,
                    attempt_count |-> 1, next_attempt_at |-> LeaseSeconds]
              ELSE NoDelivery]]
    /\ campaigns = [c \in Campaigns |-> ResolvedCampaign(campaign_deliveries[c])]
    /\ prechecked = {}
    /\ now = 0
    /\ start = [p \in Procs |-> IdleCall]
    /\ grants = 0
    /\ InitIdle

NextNotify ==
    \/ \E w \in Workers : LeaseSelect(w)
    \/ \E w \in Workers : FinalizeNotify(w)
    \/ \E w \in Workers : NotifyList(w)
    \/ \E w \in Workers : \E it \in worker[w].listed : \E ok \in BOOLEAN :
          NotifySend(w, it, ok)
    \/ \E w \in Workers : NotifyMark(w)
    \/ \E w \in Workers : Crash(w)

SpecNotify == InitNotify /\ [][NextNotify]_vars

\* SpecNotifyFair: the loops keep running and a send to the seller that is
\* tried again and again succeeds at some time
NotifyFairness ==
    /\ \A w \in Workers : WF_vars(LeaseSelect(w))
    /\ \A w \in Workers : WF_vars(FinalizeNotify(w))
    /\ \A w \in Workers : WF_vars(NotifyList(w))
    /\ \A w \in Workers :
          WF_vars(\E it \in worker[w].listed : \E ok \in BOOLEAN : NotifySend(w, it, ok))
    /\ \A w \in Workers : \A c \in Campaigns :
          SF_vars(\E it \in worker[w].listed :
                     it.campaign_id = c /\ NotifySend(w, it, TRUE))
    /\ \A w \in Workers : WF_vars(NotifyMark(w))

SpecNotifyFair == InitNotify /\ [][NextNotify]_vars /\ NotifyFairness

\* SpecWorkerErrors: one worker loop against a store whose calls can raise
NextWorkerErrors ==
    \/ \E w \in MainWorkers : LeaseSelect(w)
    \/ \E w \in MainWorkers : LeaseCommit(w)
    \/ \E w \in MainWorkers : \E item \in worker[w].items :
          \E outcome \in OutcomeSet : SendMessage(w, item, outcome)
    \/ \E w \in MainWorkers : RecordOutcome(w)
    \/ \E w \in MainWorkers : Finalize(w)
    \/ \E w \in MainWorkers : LeaseRaises(w)
    \/ \E w \in MainWorkers : RecordRaises(w)
    \/ \E w \in MainWorkers : FinalizeRaises(w)
    \/ \E w \in MainWorkers : ListRaises(w)
    \/ WorkerTick

SpecWorkerErrors == InitWorkers /\ [][NextWorkerErrors]_vars

\* SpecLease: two workers with their own batch sizes lease from a queue of two
\* sending campaigns whose rows were inserted in any order
BatchSizes == (0 - 1)..BatchSize

IdAssignments ==
    {f \in [Campaigns -> [Customers -> 1..Cardinality(DeliveryKeys)]] :
        \A x, y \in DeliveryKeys : x # y => f[x[1]][x[2]] # f[y[1]][y[2]]}

InitLease ==
    /\ sellers = {1}
    /\ seller_credits_rows = {1}
    /\ payment_orders = [o \in OrderPayloads |-> PaidOrder]
    /\ seller_credits =
          [s \in Sellers |-> IF s = 1 THEN DEFAULT_FREE_CREDITS_ON_SIGNUP - 2 ELSE 0]
    /\ seller_credit_transactions =
          [s \in Sellers |->
              IF s = 1
              THEN <<TxRow(1, DEFAULT_FREE_CREDITS_ON_SIGNUP, "free_signup", NoCampaign,
                           DEFAULT_FREE_CREDITS_ON_SIGNUP),
                     TxRow(1, -1, "campaign_send", 1, DEFAULT_FREE_CREDITS_ON_SIGNUP - 1),
                     TxRow(1, -1, "campaign_send", 2, DEFAULT_FREE_CREDITS_ON_SIGNUP - 2)>>
              ELSE << >>]
    /\ shop_customers = [sh \in Shops |-> [u \in Customers |-> "subscribed"]]
    /\ \E st \in {"sending", "paid"} :
          campaigns = [c \in Campaigns |->
             IF c \in MainCampaigns THEN StartedCampaign(Cardinality(Customers))
             ELSE [StartedCampaign(Cardinality(Customers)) EXCEPT !.status = st]]
    /\ campaign_deliveries \in [Campaigns -> [Customers ->
          {[PendingRow EXCEPT !.next_attempt_at = t] : t \in 0..1}]]
    /\ prechecked = {}
    /\ now = 0
    /\ start = [p \in Procs |-> IdleCall]
    /\ grants = 0
    /\ payment = [h \in Handlers |-> IdlePayment]
    /\ worker = [w \in Workers |-> IdleWorker]
    /\ channel_sends = [c \in Campaigns |-> [u \in Customers |-> 0]]
    /\ crashes = 0
    /\ backoff_call = NoBackoffCall
    /\ completed_notified = [c \in Campaigns |-> FALSE]
    /\ seller_inbox = [c \in Campaigns |-> << >>]
    /\ delivery_id \in IdAssignments
    /\ send_batch_size \in [Workers -> BatchSizes]
    /\ reschedule_call = NoRescheduleCall
    /\ ensure = [p \in Procs |-> IdleEnsure]

NextLease ==
    \/ \E w \in Workers : LeaseSelect(w)
    \/ \E w \in Workers : LeaseCommit(w)
    \/ WorkerTick

SpecLease == InitLease /\ [][NextLease]_vars

\* SpecRetry: one worker loop against a channel that can fail every attempt
NextRetry ==
    \/ \E w \in MainWorkers : LeaseSelect(w)
    \/ \E w \in MainWorkers : LeaseCommit(w)
    \/ \E w \in MainWorkers : \E item \in worker[w].items :
          \E outcome \in OutcomeSet : SendAnswer(w, item, outcome)
    \/ \E w \in MainWorkers : RecordOutcome(w)
    \/ \E w \in MainWorkers : Finalize(w)
    \/ WorkerTick

SpecRetry == InitWorkers /\ [][NextRetry]_vars

\* SpecRateLimited: the first send of every delivery of campaign 1 was answered
\* with "retry after n" and rescheduled; from then on the channel answers
\* with anything but a rate limit
RateLimitedRow(n) ==
    reschedule_delivery(LeasedRowAt(PendingRow, LeaseSeconds), Max2(1, n))

InitRateLimited ==
    /\ sellers = {1}
    /\ seller_credits_rows = {1}
    /\ payment_orders = [o \in OrderPayloads |-> PaidOrder]
    /\ seller_credits =
          [s \in Sellers |-> IF s = 1 THEN DEFAULT_FREE_CREDITS_ON_SIGNUP - 2 ELSE 0]
    /\ seller_credit_transactions =
          [s \in Sellers |->
              IF s = 1
              THEN <<TxRow(1, DEFAULT_FREE_CREDITS_ON_SIGNUP, "free_signup", NoCampaign,
                           DEFAULT_FREE_CREDITS_ON_SIGNUP),
                     TxRow(1, -1, "campaign_send", 1, DEFAULT_FREE_CREDITS_ON_SIGNUP - 1),
                     TxRow(1, -1, "campaign_send", 2, DEFAULT_FREE_CREDITS_ON_SIGNUP - 2)>>
              ELSE << >>]
    /\ now = 0
    /\ \E S \in SUBSET Customers : \E n \in RetryAfterValues :
          /\ shop_customers =
                [sh \in Shops |-> [u \in Customers |->
                    IF u \in S THEN "subscribed"
                    ELSE IF u = 1 THEN "unsubscribed" ELSE "none"]]
          /\ campaigns = [c \in Campaigns |->
                IF c \in MainCampaigns THEN StartedCampaign(Cardinality(S))
                ELSE [StartedCampaign(1) EXCEPT !.status = "paid"]]
          /\ campaign_deliveries = [c \in Campaigns |-> [u \in Customers |->
                IF c \in MainCampaigns
                THEN IF u \in S THEN RateLimitedRow(n) ELSE NoDelivery
                ELSE IF u = 1 THEN PendingRow ELSE NoDelivery]]
    /\ prechecked = {}
    /\ start = [p \in Procs |-> IdleCall]
    /\ grants = 0
    /\ InitIdle

NextRateLimited ==
    \/ \E w \in MainWorkers : LeaseSelect(w)
    \/ \E w \in MainWorkers : LeaseCommit(w)
    \/ \E w \in MainWorkers : \E item \in worker[w].items :
          \E outcome \in {o \in OutcomeSet : o.kind # "retry_after"} :
             SendAnswer(w, item, outcome)
    \/ \E w \in MainWorkers : RecordOutcome(w)
    \/ \E w \in MainWorkers : Finalize(w)
    \/ WorkerTick

SpecRateLimited == InitRateLimited /\ [][NextRateLimited]_vars

\* SpecReschedule: reschedule_delivery called once, at any time, on a row of
\* campaigns that are being sent or are resolved, with delays from -1 on and
\* short and long error texts
RescheduleDelays == (0 - 1)..LeaseSeconds

NextReschedule ==
    \/ /\ reschedule_call = NoRescheduleCall
       /\ \E c \in Campaigns, u \in Customers, delay \in RescheduleDelays,
             error \in ErrorTexts :
                RescheduleCall(c, u, delay, error)
    \/ WorkerTick

SpecReschedule == (InitWorkers \/ InitNotify) /\ [][NextReschedule]_vars

\* ------------------------------------------------------------------------
\* Properties
\* ------------------------------------------------------------------------
OwnerOf(c) == SellerOfShop(ShopOf(c))

\* the rows a Start may touch: balance, ledger, campaign rows, delivery rows
TablesUnchanged ==
    UNCHANGED <<sellers, seller_credits, seller_credit_transactions, campaigns,
                campaign_deliveries>>

\* the ledger rows of seller s that debit campaign c
SendRows(s, c) ==
    {i \in DOMAIN seller_credit_transactions[s] :
        /\ seller_credit_transactions[s][i].reason = "campaign_send"
        /\ seller_credit_transactions[s][i].campaign_id = c
        /\ seller_credit_transactions[s][i].delta = -1}

\* the balance of s before any Start of the modelled campaigns and any grant
BalanceBeforeStarts(s) ==
    LET txs == seller_credit_transactions[s]
    IN  SumDelta(txs, Len(txs)) + Cardinality(UNION {SendRows(s, c) : c \in Campaigns})

BothDone == \A p \in Procs : start[p].pc = "idle" /\ start[p].res # "none"

\* C1: for every seller the balance equals the sum of delta over the seller's
\* ledger rows, and the balance_after of every ledger row equals the sum of
\* delta over the rows up to and including it
C1_LedgerConservation ==
    \A s \in Sellers :
        LET txs == seller_credit_transactions[s]
        IN  /\ seller_credits[s] = SumDelta(txs, Len(txs))
            /\ \A i \in 1..Len(txs) : txs[i].balance_after = SumDelta(txs, i)
            /\ \A i \in 1..Len(txs) : txs[i].seller_id = s

\* a ledger with a signup row, a grant and a campaign debit, and a second seller
C1_Witness ==
    /\ 2 \in sellers
    /\ SendRows(1, 1) # {}
    /\ \E i \in DOMAIN seller_credit_transactions[1] :
          seller_credit_transactions[1][i].reason = "admin_grant"
    /\ \E p \in Procs : start[p].pc = "debited"

\* C2: the balance of a seller is never negative, and of two concurrent Starts
\* of different campaigns of a seller whose balance is 1 exactly one succeeds
\* and the other ends with no_credits
C2_NoNegativeBalance ==
    /\ \A s \in Sellers : seller_credits[s] >= 0
    /\ (BothDone /\ start[1].c # start[2].c /\ BalanceBeforeStarts(1) = 1)
          => /\ \E p, q \in Procs :
                   /\ p # q
                   /\ start[p].res = "ok"
                   /\ start[q].res = "no_credits"
             /\ seller_credits[1] = 0
             /\ Cardinality(UNION {SendRows(1, c) : c \in Campaigns}) = 1

\* both Starts are over, the seller had one credit, one campaign is sending
C2_Witness ==
    /\ BothDone
    /\ start[1].c # start[2].c
    /\ BalanceBeforeStarts(1) = 1
    /\ start[2].res = "ok"
    /\ start[1].res = "no_credits"
    /\ campaigns[start[2].c].status = "sending"
    /\ campaigns[start[1].c].status # "sending"

\* C3: a campaign is debited at most once: the ledger never holds two
\* campaign_send rows of delta -1 for the same campaign
C3_NoDoubleCharge ==
    \A s \in Sellers : \A c \in Campaigns : Cardinality(SendRows(s, c)) <= 1

\* C4: no step moves a campaign from sending or completed back to an earlier
\* status
C4_StatusOneDirectional ==
    [][\A c \in Campaigns :
          /\ campaigns[c].status = "sending"
                => campaigns'[c].status \in {"sending", "completed"}
          /\ campaigns[c].status = "completed"
                => campaigns'[c].status = "completed"]_vars

C6_StartRejected ==
    [][\A p \in Procs :
          (/\ start[p].pc = "called"
           /\ start'[p].pc # "called"
           /\ CampaignForSeller(start[p].tg, start[p].c))
          => LET st == campaigns[start[p].c].status
             IN  /\ st \in {"sending", "completed"}
                       => /\ start'[p].pc = "idle"
                          /\ start'[p].res = "campaign_already_started"
                          /\ TablesUnchanged
                 /\ st = "canceled"
                       => /\ start'[p].pc = "idle"
                          /\ start'[p].res = "campaign_invalid_status"
                          /\ TablesUnchanged]_vars

\* a Start on a canceled campaign has been rejected
C6_Witness ==
    \E p \in Procs :
        /\ start[p].pc = "idle"
        /\ start[p].res = "campaign_invalid_status"
        /\ campaigns[start[p].c].status = "canceled"

\* C7: a Start that reaches the debit while the owner's balance is 0 ends with
\* no_credits and changes no balance, ledger, campaign or delivery row; and
\* no_credits is the result only when the balance is 0
C7_NoCredits ==
    [][\A p \in Procs :
          (start[p].pc = "locked" /\ start'[p].pc # "locked")
          => /\ seller_credits[OwnerOf(start[p].c)] = 0
                   => /\ start'[p].pc = "idle"
                      /\ start'[p].res = "no_credits"
                      /\ TablesUnchanged
                      /\ seller_credits'[OwnerOf(start[p].c)] = 0
             /\ start'[p].res = "no_credits"
                   => seller_credits[OwnerOf(start[p].c)] = 0]_vars

\* a Start on a paid campaign ended with no_credits: the balance is 0, the
\* campaign is still paid and has no delivery row
C7_Witness ==
    \E p \in Procs :
        /\ start[p].pc = "idle"
        /\ start[p].res = "no_credits"
        /\ seller_credits[OwnerOf(start[p].c)] = 0
        /\ campaigns[start[p].c].status = "paid"
        /\ \A u \in Customers : campaign_deliveries[start[p].c][u].status = "none"
        /\ \E u \in Customers : shop_customers[ShopOf(start[p].c)][u] = "subscribed"

\* C8: a Start by a seller who does not own the campaign's shop ends with
\* campaign_not_found and changes no balance, ledger, campaign or delivery row
C8_NotOwner ==
    /\ [](\A p \in Procs : InTx(p) => start[p].tg = OwnerOf(start[p].c))
    /\ [][\A p \in Procs :
            (/\ start[p].pc = "called"
             /\ start'[p].pc # "called"
             /\ start[p].tg # OwnerOf(start[p].c))
            => /\ start'[p].pc = "idle"
               /\ start'[p].res = "campaign_not_found"
               /\ TablesUnchanged]_vars

\* a registered seller with credits was refused a campaign of another seller
C8_Witness ==
    \E p \in Procs :
        /\ start[p].pc = "idle"
        /\ start[p].res = "campaign_not_found"
        /\ start[p].tg \in sellers
        /\ start[p].tg # OwnerOf(start[p].c)
        /\ seller_credits[start[p].tg] > 0
        /\ campaigns[start[p].c].status = "paid"

\* C9: a successful Start takes one credit, adds one campaign_send ledger row
\* of delta -1, leaves every subscribed customer of the shop with a pending
\* delivery row whose next_attempt_at is the time of the Start, sets
\* total_recipients to the number of delivery rows, zeroes the counters, sets
\* the status to sending and returns total_recipients
C9_StartEffect ==
    [][\A p \in Procs :
          (start[p].pc = "debited" /\ start'[p].pc = "idle" /\ start'[p].res = "ok")
          => LET c == start[p].c
                 s == OwnerOf(c)
                 subs == {u \in Customers : shop_customers[ShopOf(c)][u] = "subscribed"}
             IN  /\ seller_credits'[s] = seller_credits[s] - 1
                 /\ Cardinality(SendRows(s, c))' = Cardinality(SendRows(s, c)) + 1
                 /\ \A u \in subs :
                       /\ campaign_deliveries'[c][u].status = "pending"
                       /\ campaign_deliveries'[c][u].next_attempt_at = start[p].tx_now
                 /\ campaigns'[c].total_recipients
                       = Cardinality({u \in Customers :
                                         campaign_deliveries'[c][u].status # "none"})
                 /\ campaigns'[c].sent_count = 0
                 /\ campaigns'[c].failed_count = 0
                 /\ campaigns'[c].blocked_count = 0
                 /\ campaigns'[c].status = "sending"
                 /\ start'[p].ret = campaigns'[c].total_recipients]_vars

\* C10: of two concurrent Starts of the owner on the same campaign, with a
\* balance of at least 1, exactly one succeeds and the other ends with
\* campaign_already_started; one credit is debited, the deliveries are
\* enqueued once, and the two never hold the campaign row together
C10_DoubleClick ==
    /\ \A p, q \in Procs : (p # q /\ InTx(p) /\ InTx(q)) => start[p].c # start[q].c
    /\ (BothDone /\ start[1].c = start[2].c /\ BalanceBeforeStarts(1) >= 1)
          => LET c == start[1].c
             IN  /\ \E p, q \in Procs :
                       /\ p # q
                       /\ start[p].res = "ok"
                       /\ start[q].res = "campaign_already_started"
                 /\ seller_credits[1] = BalanceBeforeStarts(1) - 1
                 /\ Cardinality(SendRows(1, c)) = 1
                 /\ campaigns[c].status = "sending"
                 /\ \A u \in Customers :
                       IF shop_customers[ShopOf(c)][u] = "subscribed"
                       THEN campaign_deliveries[c][u]
                               = [status |-> "pending", attempt_count |-> 0,
                                  next_attempt_at |-> now]
                       ELSE campaign_deliveries[c][u] = NoDelivery
                 /\ campaigns[c].total_recipients
                       = Cardinality({u \in Customers :
                                         shop_customers[ShopOf(c)][u] = "subscribed"})

\* the second click lost: it ended with campaign_already_started after the
\* first one had debited the last credit and enqueued a delivery
C10_Witness ==
    /\ BothDone
    /\ start[1].c = start[2].c
    /\ BalanceBeforeStarts(1) = 1
    /\ start[1].res = "campaign_already_started"
    /\ start[2].res = "ok"
    /\ start[2].ret = 2

\* the ledger rows of seller s that carry the correlation key
KeyRows(s, key) ==
    {i \in DOMAIN seller_credit_transactions[s] :
        \/ seller_credit_transactions[s][i].tg_payment_charge_id = key
        \/ seller_credit_transactions[s][i].invoice_payload = key}

PaymentKeys == Charges \cup OrderPayloads

RECURSIVE SumQty(_)
SumQty(keys) ==
    IF keys = {} THEN 0
    ELSE LET key == CHOOSE x \in keys : TRUE
         IN  PackQty(key) + SumQty(keys \ {key})

\* the balance of s without its purchases: the deltas of the rows with no key
BalanceWithoutPurchases(s) ==
    LET txs == seller_credit_transactions[s]
        keyed == UNION {KeyRows(s, key) : key \in PaymentKeys}
        F[n \in 0..Len(txs)] ==
            IF n = 0 THEN 0
            ELSE F[n - 1] + (IF n \in keyed THEN 0 ELSE txs[n].delta)
    IN  F[Len(txs)]

\* C11: handling a payment confirmation again, after it was handled, changes
\* nothing: each correlation key has at most one ledger row per seller, the
\* balance is the balance without purchases plus the pack of every key credited
\* once, and the later handling reports the current balance and leaves balance
\* and ledger unchanged
C11_IdempotentGrant ==
    /\ [](\A s \in Sellers :
            /\ \A key \in PaymentKeys : Cardinality(KeyRows(s, key)) <= 1
            /\ seller_credits[s]
                  = BalanceWithoutPurchases(s)
                      + SumQty({key \in PaymentKeys : KeyRows(s, key) # {}}))
    /\ [][\A h \in Handlers :
            (/\ payment[h].pc = "checked"
             /\ payment'[h].pc = "idle"
             /\ KeyRows(payment[h].tg, payment[h].key) # {})
            => /\ payment'[h].res = "already"
               /\ payment'[h].balance = seller_credits[payment[h].tg]
               /\ UNCHANGED <<sellers, seller_credits, seller_credit_transactions>>]_vars

\* a redelivered successful_payment was answered with the balance, and the
\* charge has one ledger row
C11_Witness ==
    \E h \in Handlers :
        /\ payment[h].pc = "idle"
        /\ payment[h].res = "already"
        /\ payment[h].kind = "credits_pack"
        /\ Cardinality(KeyRows(payment[h].tg, payment[h].key)) = 1
        /\ payment[h].balance = seller_credits[payment[h].tg]
        /\ KeyRows(payment[h].tg, "order:a") # {}

\* C12: at most one ledger row exists per Telegram charge id per seller
C12_OneTxPerCharge ==
    \A s \in Sellers : \A key \in Charges :
        Cardinality({i \in DOMAIN seller_credit_transactions[s] :
                        seller_credit_transactions[s][i].tg_payment_charge_id = key}) <= 1

\* C13: the enqueue step of a Start adds a pending row for every subscribed
\* customer that has none, adds no row for anyone else and leaves every row
\* that exists as it is, so a second Start of the campaign duplicates nothing
C13_EnqueueIdempotent ==
    [][\A p \in Procs :
          (start[p].pc = "debited" /\ start'[p].pc = "idle" /\ start'[p].res = "ok")
          => LET c == start[p].c
             IN  \A u \in Customers :
                    IF campaign_deliveries[c][u].status # "none"
                    THEN campaign_deliveries'[c][u] = campaign_deliveries[c][u]
                    ELSE IF shop_customers[ShopOf(c)][u] = "subscribed"
                    THEN campaign_deliveries'[c][u].status = "pending"
                    ELSE campaign_deliveries'[c][u] = NoDelivery]_vars

\* a campaign was started a second time: the customer sent to by the first run
\* still has the sent row, the customer who subscribed in between got a new one
C13_Witness ==
    \E c \in Campaigns :
        /\ Cardinality(SendRows(OwnerOf(c), c)) = 2
        /\ campaigns[c].status = "sending"
        /\ \E u \in Customers : campaign_deliveries[c][u].status = "sent"
        /\ \E u \in Customers :
              /\ campaign_deliveries[c][u].status = "pending"
              /\ campaign_deliveries[c][u].attempt_count = 0

\* ------------------------------------------------------------------------
\* Delivery queue
\* ------------------------------------------------------------------------
\* the lease transaction of worker w returns its items in this step
LeaseReturns(w) ==
    worker[w].pc = "selected" /\ worker'[w].pc = "processing"

LeaseSelects(w) ==
    worker[w].pc = "idle" /\ worker'[w].pc \in {"selected", "finalize"}

\* C15: every row a lease selects has, at the time of the SELECT, status
\* pending, next_attempt_at <= now and a campaign in status sending; so a row
\* in a terminal status, a row not yet due and a row of a campaign that is
\* not sending is not leased, and only a leased row gets its attempt counted.
C15_LeaseOnlyEligible ==
    [][/\ \A w \in Workers : LeaseSelects(w) =>
             \A k \in worker'[w].rows :
                /\ campaign_deliveries[k[1]][k[2]].status = "pending"
                /\ campaign_deliveries[k[1]][k[2]].next_attempt_at <= now
                /\ campaigns[k[1]].status = "sending"
       /\ \A k \in DeliveryKeys :
             campaign_deliveries'[k[1]][k[2]].attempt_count
                   # campaign_deliveries[k[1]][k[2]].attempt_count
                => \E w \in Workers : LeaseReturns(w) /\ k \in worker[w].rows]_vars

\* a lease ran and took nothing while a sent row, a row under an unexpired
\* lease and a due pending row of a campaign that is not sending were there
C15_Witness ==
    \E w \in Workers :
       /\ worker[w].pc = "finalize"
       /\ worker[w].item = NoItem
       /\ worker[w].tx_now = now
       /\ \E k \in DeliveryKeys : campaign_deliveries[k[1]][k[2]].status = "sent"
       /\ \E k \in DeliveryKeys :
             /\ campaign_deliveries[k[1]][k[2]].status = "pending"
             /\ campaign_deliveries[k[1]][k[2]].next_attempt_at > now
       /\ \E k \in DeliveryKeys :
             /\ campaign_deliveries[k[1]][k[2]].status = "pending"
             /\ campaign_deliveries[k[1]][k[2]].next_attempt_at <= now
             /\ campaign_deliveries[k[1]][k[2]].attempt_count = 0
             /\ campaigns[k[1]].status # "sending"

\* C16: a delivery row in a terminal status (sent, blocked, failed) never goes
\* back to pending, whatever the interleaving of the workers.
C16_NoRegress ==
    [][\A k \in DeliveryKeys :
          campaign_deliveries[k[1]][k[2]].status \in TerminalStatuses
             => campaign_deliveries'[k[1]][k[2]].status # "pending"]_vars

\* C17 as stated: for every (campaign, recipient) pair the send to the
\* outbound channel succeeds at most once.
C17_NoDoubleSend ==
    \A k \in DeliveryKeys : channel_sends[k[1]][k[2]] <= 1

\* C17, amended: the send succeeds at most once per lease of the row. The
\* successful sends of a pair never exceed the attempt_count of its row, and a
\* send happens only for a leased job that its worker holds and gives up.
C17_AtMostOncePerLease ==
    /\ [](\A k \in DeliveryKeys :
             channel_sends[k[1]][k[2]] <= campaign_deliveries[k[1]][k[2]].attempt_count)
    /\ [][\A k \in DeliveryKeys :
             channel_sends'[k[1]][k[2]] # channel_sends[k[1]][k[2]] =>
                /\ channel_sends'[k[1]][k[2]] = channel_sends[k[1]][k[2]] + 1
                /\ \E w \in Workers :
                      /\ worker[w].pc = "processing"
                      /\ worker'[w].item \in worker[w].items
                      /\ worker'[w].item \notin worker'[w].items
                      /\ <<worker'[w].item.c, worker'[w].item.u>> = k]_vars

\* a pair was sent twice, through two leases of its row
C17_Witness ==
    \E k \in DeliveryKeys :
       /\ channel_sends[k[1]][k[2]] = 2
       /\ campaign_deliveries[k[1]][k[2]].attempt_count = 2

\* worker w holds a leased job for the row k
Holds(w, k) ==
    \/ \E it \in worker[w].items : <<it.c, it.u>> = k
    \/ worker[w].pc = "sent" /\ <<worker[w].item.c, worker[w].item.u>> = k

\* the row k was leased, is not resolved, and no worker holds a job for it
Orphaned(k) ==
    /\ campaign_deliveries[k[1]][k[2]].attempt_count >= 1
    /\ campaign_deliveries[k[1]][k[2]].status \notin TerminalStatuses
    /\ \A w \in Workers : ~Holds(w, k) /\ k \notin worker[w].rows

\* C18: at-least-once processing. A leased row whose worker crashed before any
\* mark or reschedule is still pending; a pending row of a sending campaign is
\* eligible as soon as now >= next_attempt_at; and with a worker loop that
\* keeps running, a clock that advances and a channel that stops answering
\* with retryable errors, every such row reaches a terminal status.
C18_AtLeastOnce ==
    /\ [][\A w \in Workers :
             worker[w].pc # "idle" /\ worker'[w] = IdleWorker /\ crashes' = crashes + 1
                => campaign_deliveries' = campaign_deliveries]_vars
    /\ [](\A k \in DeliveryKeys :
             Orphaned(k) =>
                /\ campaign_deliveries[k[1]][k[2]].status = "pending"
                /\ campaigns[k[1]].status = "sending"
                /\ campaign_deliveries[k[1]][k[2]].next_attempt_at <= now
                      => k \in Eligible)
    /\ \A k \in DeliveryKeys :
          Orphaned(k) ~> campaign_deliveries[k[1]][k[2]].status \in TerminalStatuses

\* a crash has orphaned a row at an attempt that is never rescheduled, and the
\* lease written on the row has not expired yet
C18_Witness ==
    /\ crashes >= 1
    /\ \E k \in DeliveryKeys :
          /\ Orphaned(k)
          /\ campaign_deliveries[k[1]][k[2]].attempt_count >= MaxAttempts
          /\ campaign_deliveries[k[1]][k[2]].next_attempt_at > now

\* worker w records the outcome of its send in this step
Records(w) ==
    worker[w].pc = "sent" /\ worker'[w].pc \in {"processing", "finalize"}

\* the counters of a campaign row: sent, blocked, failed
Counters(camp) == <<camp.sent_count, camp.blocked_count, camp.failed_count>>

\* C19: outcome classification. Recording the outcome of a leased job takes
\* exactly one queue action, chosen by the outcome of the send: success marks
\* the row sent and adds 1 to sent_count; retry-after N leaves it pending at
\* now + max(1, N); forbidden marks it blocked and adds 1 to blocked_count; bad
\* request marks it failed and adds 1 to failed_count; every other error, and
\* an exception after the send, leaves it pending at now + backoff(attempt).
\* Nothing else changes: no other row, no other counter, not the attempt count.
C19_OutcomeClassification ==
    [][\A w \in Workers : Records(w) =>
          LET c == worker[w].item.c
              u == worker[w].item.u
              kind == worker[w].outcome
              row == campaign_deliveries[c][u]
              row2 == campaign_deliveries'[c][u]
              cnt == Counters(campaigns[c])
              cnt2 == Counters(campaigns'[c])
          IN  /\ \A k \in DeliveryKeys \ {<<c, u>>} :
                    campaign_deliveries'[k[1]][k[2]] = campaign_deliveries[k[1]][k[2]]
              /\ \A c2 \in Campaigns \ {c} : campaigns'[c2] = campaigns[c2]
              /\ campaigns'[c].status = campaigns[c].status
              /\ campaigns'[c].total_recipients = campaigns[c].total_recipients
              /\ row2.attempt_count = row.attempt_count
              /\ kind = "ok" =>
                    /\ row2.status = "sent"
                    /\ row2.next_attempt_at = row.next_attempt_at
                    /\ cnt2 = <<cnt[1] + 1, cnt[2], cnt[3]>>
              /\ kind = "retry_after" =>
                    /\ row2.status = "pending"
                    /\ row2.next_attempt_at = now + Max2(1, worker[w].n)
                    /\ cnt2 = cnt
              /\ kind = "forbidden" =>
                    /\ row2.status = "blocked"
                    /\ row2.next_attempt_at = row.next_attempt_at
                    /\ cnt2 = <<cnt[1], cnt[2] + 1, cnt[3]>>
              /\ kind = "bad_request" =>
                    /\ row2.status = "failed"
                    /\ row2.next_attempt_at = row.next_attempt_at
                    /\ cnt2 = <<cnt[1], cnt[2], cnt[3] + 1>>
              /\ kind \in {"transient", "ok_unrecorded"} =>
                    /\ row2.status = "pending"
                    /\ row2.next_attempt_at
                          = now + calc_backoff_seconds(worker[w].item.attempt)
                    /\ cnt2 = cnt
              /\ kind \in Outcomes \cup {"ok_unrecorded"}]_vars

\* one batch of two jobs has been recorded: one blocked, one failed
C19_Witness ==
    \E w \in Workers :
       /\ worker[w].pc = "finalize"
       /\ worker[w].outcome = "bad_request"
       /\ campaign_deliveries[worker[w].item.c][worker[w].item.u].status = "failed"
       /\ Counters(campaigns[worker[w].item.c]) = <<0, 1, 1>>

\* ------------------------------------------------------------------------
\* Backoff
\* ------------------------------------------------------------------------
Clamp(x, lo, hi) == Min2(hi, Max2(lo, x))

\* the properties of the backoff the claim lists, for one evaluated call
BackoffAsClaimed(call) ==
    /\ call.seconds = Clamp(call.base * Pow2(call.attempt - 1), call.base, call.max)
    /\ call.seconds <= calc_backoff(call.base, call.max, call.attempt + 1)
    /\ call.seconds <= call.max
    /\ call.attempt = 1 => call.seconds >= call.base

\* C20 as stated: for every attempt >= 1 and every configured base and max the
\* backoff equals clamp(base * 2^(attempt-1), base, max), is non-decreasing in
\* the attempt, never exceeds max, and backoff(1) >= base.
C20_BackoffAnySettings ==
    backoff_call.attempt >= 1 => BackoffAsClaimed(backoff_call)

\* C20, amended: this holds for settings with 1 <= base <= max. For every
\* setting the backoff is max(1, clamp(base * 2^(attempt-1), base, max)), is
\* at least 1 and is non-decreasing in the attempt.
C20_BackoffValidSettings ==
    backoff_call.attempt >= 1 =>
       /\ 1 <= backoff_call.base /\ backoff_call.base <= backoff_call.max
             => BackoffAsClaimed(backoff_call)
       /\ backoff_call.seconds =
             Max2(1, Clamp(backoff_call.base * Pow2(backoff_call.attempt - 1),
                           backoff_call.base, backoff_call.max))
       /\ backoff_call.seconds >= 1
       /\ backoff_call.seconds
             <= calc_backoff(backoff_call.base, backoff_call.max, backoff_call.attempt + 1)

\* a call under valid settings that grew beyond the base and met the cap
C20_Witness ==
    /\ backoff_call.attempt >= 2
    /\ 1 <= backoff_call.base
    /\ backoff_call.base < backoff_call.max
    /\ backoff_call.base * Pow2(backoff_call.attempt - 1) > backoff_call.max
    /\ backoff_call.seconds = backoff_call.max

\* ------------------------------------------------------------------------
\* Completion detector and notifier
\* ------------------------------------------------------------------------
\* worker w runs finalize_completed_campaigns in this step
Finalizes(w) ==
    worker[w].pc = "finalize" /\ worker'[w].pc # "finalize" /\ crashes' = crashes

C22_NotifyAtLeastOnce ==
    /\ [](\A c \in Campaigns : completed_notified[c] => Len(seller_inbox[c]) >= 1)
    /\ [][\A c \in Campaigns :
             completed_notified'[c] # completed_notified[c] =>
                /\ completed_notified'[c]
                /\ \E w \in Workers :
                      /\ worker[w].pc = "notified"
                      /\ worker[w].notice.campaign_id = c
                      /\ worker'[w].pc # "notified"]_vars
    /\ [][\A w \in Workers :
             worker[w].pc = "notifying" /\ worker'[w].pc # "notified"
                /\ worker'[w].listed # worker[w].listed /\ crashes' = crashes
                => completed_notified' = completed_notified
                   /\ seller_inbox' = seller_inbox]_vars
    /\ \A c \in Campaigns :
          campaigns[c].status = "completed"
             ~> completed_notified[c] /\ Len(seller_inbox[c]) >= 1

\* a worker's send for a campaign failed, and the campaign has been notified
\* and marked all the same
C22_Witness ==
    \E w \in Workers : \E c \in Campaigns :
       /\ worker[w].outcome = "notify_failed"
       /\ worker[w].notice.campaign_id = c
       /\ completed_notified[c]
       /\ Len(seller_inbox[c]) >= 1

Lists(w) ==
    worker[w].pc = "notify" /\ worker'[w].pc # "notify" /\ crashes' = crashes

C24_NotDeliveredIsUnsent ==
    \A c \in Campaigns :
       \A i \in 1..Len(seller_inbox[c]) :
          seller_inbox[c][i].not_delivered =
             seller_inbox[c][i].total_recipients - seller_inbox[c][i].sent

\* C25: no failure of the store ends the worker: after an exception raised by
\* the lease, the finalize, the notification listing or the recording of an
\* outcome the loop is still running
C25_WorkerSurvivesStoreErrors ==
    \A w \in Workers : worker[w].pc # "terminated"

\* C26: no step lowers sent_count, failed_count or blocked_count of a campaign
\* (the counters are 0 until the campaign enters sending, so this is the claim
\* from the first moment of sending on)
C26_CountersMonotone ==
    [][\A c \in Campaigns :
          /\ campaigns'[c].sent_count >= campaigns[c].sent_count
          /\ campaigns'[c].failed_count >= campaigns[c].failed_count
          /\ campaigns'[c].blocked_count >= campaigns[c].blocked_count]_vars

\* C27: Start is all-or-nothing. A Start that fails after the debit leaves the
\* balance, the ledger, the campaigns and the queue as they were; the balance
\* of a seller changes only in a step that also appends the ledger row of the
\* change, and when that row is a campaign_send the campaign is sending in the
\* same step; in every state the balance is the balance_after of the last
\* ledger row
C27_StartAllOrNothing ==
    /\ [](\A s \in Sellers :
            LET txs == seller_credit_transactions[s]
            IN  seller_credits[s] = IF Len(txs) = 0 THEN 0 ELSE txs[Len(txs)].balance_after)
    /\ [][\A p \in Procs :
            (start[p].pc = "debited" /\ start'[p].res = "error")
               => /\ seller_credits' = seller_credits
                  /\ seller_credit_transactions' = seller_credit_transactions
                  /\ campaigns' = campaigns
                  /\ campaign_deliveries' = campaign_deliveries]_vars
    /\ [][\A s \in Sellers :
            seller_credits'[s] # seller_credits[s]
               => LET txs == seller_credit_transactions'[s]
                      last == txs[Len(txs)]
                  IN  /\ Len(txs) = Len(seller_credit_transactions[s]) + 1
                      /\ last.delta = seller_credits'[s] - seller_credits[s]
                      /\ last.balance_after = seller_credits'[s]
                      /\ last.reason = "campaign_send"
                            => /\ campaigns'[last.campaign_id].status = "sending"
                               /\ campaigns[last.campaign_id].status # "sending"]_vars

\* a Start failed after its debit while the seller had credits and the other
\* Start committed: the ledger holds exactly one debit
C27_Witness ==
    \E p, q \in Procs :
       /\ start[p].res = "error"
       /\ start[q].res = "ok"
       /\ Cardinality({i \in DOMAIN seller_credit_transactions[1] :
                          seller_credit_transactions[1][i].reason = "campaign_send"}) = 1

\* a row that a concurrent leaser keeps from this SELECT: the delivery row, its
\* campaign row or its customers row is locked by an open lease transaction
LockedByLeaser(k) ==
    \/ DeliveryRowLocked(k)
    \/ LeaseCampaignLocked(k[1])
    \/ LeaseCustomerLocked(k[2])

C29_LeaseFrame ==
    /\ [](\A w \in Workers : worker[w].pc = "selected" =>
            \A k \in worker[w].rows :
               /\ campaign_deliveries[k[1]][k[2]].status = "pending"
               /\ campaign_deliveries[k[1]][k[2]].next_attempt_at <= worker[w].tx_now)
    /\ [][\A w \in Workers : LeaseReturns(w) =>
            /\ \A k \in worker[w].rows :
                  /\ campaign_deliveries'[k[1]][k[2]].attempt_count
                        = campaign_deliveries[k[1]][k[2]].attempt_count + 1
                  /\ campaign_deliveries'[k[1]][k[2]].next_attempt_at
                        = worker[w].tx_now + LeaseSeconds
                  /\ campaign_deliveries'[k[1]][k[2]].status = "pending"
            /\ \A k \in DeliveryKeys \ worker[w].rows :
                  campaign_deliveries'[k[1]][k[2]] = campaign_deliveries[k[1]][k[2]]
            /\ campaigns' = campaigns
            /\ {<<it.c, it.u>> : it \in worker'[w].items} = worker[w].rows
            /\ Cardinality(worker'[w].items) = Cardinality(worker[w].rows)
            /\ \A it \in worker'[w].items :
                  it.attempt = campaign_deliveries'[it.c][it.u].attempt_count]_vars

\* a worker holds a job of a second attempt, leased while the other row of the
\* campaign was not due and stayed as it was
C29_Witness ==
    \E w \in Workers : \E it \in worker[w].items :
       /\ worker[w].pc = "processing"
       /\ it.attempt = 2
       /\ campaign_deliveries[it.c][it.u].attempt_count = 2
       /\ campaign_deliveries[it.c][it.u].next_attempt_at = it.lease_until
       /\ \E u \in Customers \ {it.u} :
             /\ campaign_deliveries[it.c][u].status = "pending"
             /\ campaign_deliveries[it.c][u].next_attempt_at > now
             /\ \A x \in worker[w].items : x.u # u

\* C30: attempt_count of a delivery changes only in the step in which a lease
\* returns it, by 1; a transient error on attempt a leaves the row pending
\* with attempt_count = a and next_attempt_at = now + min(max, base * 2^(a-1)):
\* now + base after the first lease, now + 2 * base (up to the cap) after the
\* second
C30_RetrySequence ==
    /\ [][\A k \in DeliveryKeys :
            campaign_deliveries'[k[1]][k[2]].attempt_count
                  # campaign_deliveries[k[1]][k[2]].attempt_count
               => \E w \in Workers :
                     /\ LeaseReturns(w)
                     /\ k \in worker[w].rows
                     /\ campaign_deliveries'[k[1]][k[2]].attempt_count
                           = campaign_deliveries[k[1]][k[2]].attempt_count + 1]_vars
    /\ [][\A w \in Workers :
            (Records(w) /\ worker[w].outcome = "transient")
               => LET it == worker[w].item
                      row == campaign_deliveries'[it.c][it.u]
                  IN  /\ row.status = "pending"
                      /\ row.attempt_count = it.attempt
                      /\ it.attempt = 1 => row.next_attempt_at = now + RetryBase
                      /\ it.attempt = 2 =>
                            row.next_attempt_at = now + Min2(RetryMax, 2 * RetryBase)
                      /\ row.next_attempt_at
                            = now + Min2(RetryMax, RetryBase * Pow2(it.attempt - 1))]_vars

\* the second transient error of a delivery was just recorded: the row is
\* pending on attempt 2 and due in twice the base delay
C30_Witness ==
    \E w \in Workers :
       LET it == worker[w].item
       IN  /\ worker[w].pc \in {"processing", "finalize"}
           /\ worker[w].outcome = "transient"
           /\ it.attempt = 2
           /\ campaign_deliveries[it.c][it.u].status = "pending"
           /\ campaign_deliveries[it.c][it.u].attempt_count = 2
           /\ campaign_deliveries[it.c][it.u].next_attempt_at = now + 2 * RetryBase

\* C31: a rate-limited send is not an attempt against the backoff budget. In
\* SpecRateLimited every delivery has exactly one rate-limited send behind it,
\* so a transient error on the job of attempt a is the error of its (a-1)th
\* counted send and is rescheduled with the delay of attempt a - 1
C31_RateLimitNotCounted ==
    [][\A w \in Workers :
          (Records(w) /\ worker[w].outcome = "transient")
             => campaign_deliveries'[worker[w].item.c][worker[w].item.u].next_attempt_at
                   = now + Min2(RetryMax, RetryBase * Pow2(worker[w].item.attempt - 2))]_vars

\* C32: a call of reschedule_delivery on an existing row sets the row's status
\* to pending and its next_attempt_at to now + max(1, delay), stores as
\* last_error the first LastErrorLimit characters of the error text, and
\* leaves attempt_count, every other row and every campaign row as they were
C32_RescheduleFrame ==
    [][now' = now =>
          LET call == reschedule_call'
              row == campaign_deliveries[call.c][call.u]
              new == campaign_deliveries'[call.c][call.u]
          IN  /\ row.status # "none" =>
                    /\ new.status = "pending"
                    /\ new.next_attempt_at = now + (IF call.delay >= 1 THEN call.delay ELSE 1)
                    /\ new.attempt_count = row.attempt_count
              /\ row.status = "none" => new = row
              /\ Len(call.last_error) <= LastErrorLimit
              /\ Len(call.last_error) <= Len(call.error)
              /\ Len(call.error) <= LastErrorLimit => call.last_error = call.error
              /\ \A i \in 1..Len(call.last_error) : call.last_error[i] = call.error[i]
              /\ Len(call.error) >= LastErrorLimit => Len(call.last_error) = LastErrorLimit
              /\ \A k \in DeliveryKeys \ {<<call.c, call.u>>} :
                    campaign_deliveries'[k[1]][k[2]] = campaign_deliveries[k[1]][k[2]]
              /\ campaigns' = campaigns]_vars

\* a row was rescheduled with a delay below 1 and an error text longer than
\* the limit, while another row of the campaign is sent
C32_Witness ==
    /\ reschedule_call.c \in Campaigns
    /\ reschedule_call.delay < 1
    /\ Len(reschedule_call.error) > LastErrorLimit
    /\ Len(reschedule_call.last_error) = LastErrorLimit
    /\ campaign_deliveries[reschedule_call.c][reschedule_call.u].status = "pending"
    /\ campaign_deliveries[reschedule_call.c][reschedule_call.u].next_attempt_at = now + 1
    /\ \E u \in Customers \ {reschedule_call.u} :
          campaign_deliveries[reschedule_call.c][u].status = "sent"

\* the customers who have a Delivery row of campaign c
Audience(c) == {u \in Customers : campaign_deliveries[c][u].status # "none"}

\* C33: a step that changes a subscription leaves every Delivery row and every
\* campaign row as it was, and once a Start of a campaign has succeeded (its
\* campaign_send row is in the ledger) the set of customers with a Delivery
\* row of the campaign and its total_recipients never change
C33_AudienceSnapshot ==
    /\ [][shop_customers' # shop_customers =>
             /\ campaign_deliveries' = campaign_deliveries
             /\ campaigns' = campaigns]_vars
    /\ [][\A c \in Campaigns :
             SendRows(OwnerOf(c), c) # {} =>
                /\ {u \in Customers : campaign_deliveries'[c][u].status # "none"} = Audience(c)
                /\ campaigns'[c].total_recipients = campaigns[c].total_recipients]_vars

\* the number of Delivery rows of campaign c in the given statuses
RowCount(c, statuses) ==
    Cardinality({u \in Customers : campaign_deliveries[c][u].status \in statuses})

\* C34: the counters of a sending or completed campaign count its Delivery
\* rows: sent_count, blocked_count and failed_count are the numbers of rows
\* sent, blocked and failed, total_recipients is the number of rows, and the
\* three counters together never exceed total_recipients
C34_CounterConsistency ==
    \A c \in Campaigns : campaigns[c].status \in {"sending", "completed"} =>
       /\ campaigns[c].sent_count = RowCount(c, {"sent"})
       /\ campaigns[c].blocked_count = RowCount(c, {"blocked"})
       /\ campaigns[c].failed_count = RowCount(c, {"failed"})
       /\ campaigns[c].total_recipients = RowCount(c, {"pending"} \cup TerminalStatuses)
       /\ campaigns[c].sent_count + campaigns[c].blocked_count + campaigns[c].failed_count
             <= campaigns[c].total_recipients

\* C35: a completed campaign has no Delivery row in status pending
C35_CompletedHasNoPending ==
    \A c \in Campaigns :
       campaigns[c].status = "completed" => RowCount(c, {"pending"}) = 0

\* the first half of C36: with a worker loop that keeps running, a sending
\* campaign whose deliveries are all resolved is completed at some time
C36_EventuallyCompleted ==
    \A c \in Campaigns :
       (campaigns[c].status = "sending" /\ RowCount(c, {"pending"}) = 0)
          ~> campaigns[c].status = "completed"

\* C36: completion is final. A campaign that has reached completed stays
\* completed (the second half of the claim; the first half is
\* C36_EventuallyCompleted)
C36_CompletedStays ==
    [][\A c \in Campaigns :
          campaigns[c].status = "completed" => campaigns'[c].status = "completed"]_vars

\* the Start of process p commits in this step
StartSucceeds(p) == start[p].pc = "debited" /\ start'[p].res = "ok"

\* C37: a Start that commits while no customer is subscribed to the shop of
\* the campaign debits one credit, creates no Delivery row, sets
\* total_recipients = 0 and status = sending and returns 0, and the next
\* finalize_completed_campaigns pass completes the campaign
C37_EmptyAudienceStart ==
    [][\A p \in Procs :
          (/\ StartSucceeds(p)
           /\ \A u \in Customers : shop_customers[ShopOf(start[p].c)][u] # "subscribed")
             => LET c == start[p].c
                    s == OwnerOf(c)
                IN  /\ seller_credits'[s] = seller_credits[s] - 1
                    /\ campaign_deliveries' = campaign_deliveries
                    /\ campaigns'[c].total_recipients = 0
                    /\ campaigns'[c].status = "sending"
                    /\ start'[p].ret = 0
                    /\ finalize_completed_campaigns(campaigns', campaign_deliveries')[c].status
                          = "completed"]_vars

\* ------------------------------------------------------------------------
\* Signup: ensure_seller and create_shop, statement by statement
\* ------------------------------------------------------------------------
\* async with conn.transaction(): of ensure_seller
EnsureCall(p, tg) ==
    /\ ensure[p].pc \in {"idle", "done"}
    /\ ensure' = [ensure EXCEPT ![p] =
          [pc |-> "begun", op |-> "ensure_seller", tg |-> tg, ins |-> FALSE, ret |-> 0]]
    /\ UNCHANGED <<sellers, seller_credits, seller_credit_transactions, seller_credits_rows,
                   campaigns, prechecked, shop_customers, campaign_deliveries,
                   now, start, grants, payment, worker, channel_sends, crashes,
                   backoff_call, completed_notified, seller_inbox, delivery_id,
                   send_batch_size, reschedule_call, payment_orders>>

\* async with conn.transaction(): of create_shop
CreateShopCall(p, tg) ==
    /\ ensure[p].pc \in {"idle", "done"}
    /\ ensure' = [ensure EXCEPT ![p] =
          [pc |-> "begun", op |-> "create_shop", tg |-> tg, ins |-> FALSE, ret |-> 0]]
    /\ UNCHANGED <<sellers, seller_credits, seller_credit_transactions, seller_credits_rows,
                   campaigns, prechecked, shop_customers, campaign_deliveries,
                   now, start, grants, payment, worker, channel_sends, crashes,
                   backoff_call, completed_notified, seller_inbox, delivery_id,
                   send_batch_size, reschedule_call, payment_orders>>

\* INSERT INTO sellers(tg_user_id) ... ON CONFLICT (tg_user_id) DO UPDATE ...
\* RETURNING id: waits while another open transaction holds the row
InsertSeller(p) ==
    /\ ensure[p].pc = "begun"
    /\ \A q \in Procs \ {p} : ~SellerRowLocked(q, ensure[p].tg)
    /\ ensure' = [ensure EXCEPT ![p].pc = "seller", ![p].ret = ensure[p].tg]
    /\ UNCHANGED <<sellers, seller_credits, seller_credit_transactions, seller_credits_rows,
                   campaigns, prechecked, shop_customers, campaign_deliveries,
                   now, start, grants, payment, worker, channel_sends, crashes,
                   backoff_call, completed_notified, seller_inbox, delivery_id,
                   send_batch_size, reschedule_call, payment_orders>>

\* variant: the INSERT into seller_credits always returns a row
CreditsRowInsertedAlways(p) == TRUE

\* ins is not None: INSERT INTO seller_credits ... ON CONFLICT (seller_id)
\* DO NOTHING RETURNING seller_id returns a row only when it inserted one
CreditsRowInserted(p) == ensure[p].ret \notin seller_credits_rows

\* the INSERT into seller_credits of ensure_seller
InsertCredits(p) ==
    /\ ensure[p].pc = "seller"
    /\ ensure[p].op = "ensure_seller"
    /\ \A q \in Procs \ {p} :
          ~(ensure[q].pc \in {"credits", "signup_tx"} /\ ensure[q].ins
              /\ ensure[q].ret = ensure[p].ret)
    /\ ensure' = [ensure EXCEPT ![p].pc = "credits", ![p].ins = CreditsRowInserted(p)]
    /\ UNCHANGED <<sellers, seller_credits, seller_credit_transactions, seller_credits_rows,
                   campaigns, prechecked, shop_customers, campaign_deliveries,
                   now, start, grants, payment, worker, channel_sends, crashes,
                   backoff_call, completed_notified, seller_inbox, delivery_id,
                   send_batch_size, reschedule_call, payment_orders>>

\* if ins is not None: INSERT INTO seller_credit_transactions ... 'free_signup'
InsertSignupTx(p) ==
    /\ ensure[p].pc = "credits"
    /\ ensure[p].ins
    /\ ensure' = [ensure EXCEPT ![p].pc = "signup_tx"]
    /\ UNCHANGED <<sellers, seller_credits, seller_credit_transactions, seller_credits_rows,
                   campaigns, prechecked, shop_customers, campaign_deliveries,
                   now, start, grants, payment, worker, channel_sends, crashes,
                   backoff_call, completed_notified, seller_inbox, delivery_id,
                   send_batch_size, reschedule_call, payment_orders>>

\* the transaction of ensure_seller or create_shop commits: its rows become visible
EnsureCommit(p) ==
    /\ \/ ensure[p].op = "create_shop" /\ ensure[p].pc = "seller"
       \/ ensure[p].op = "ensure_seller" /\ ensure[p].pc = "credits" /\ ~ensure[p].ins
       \/ ensure[p].op = "ensure_seller" /\ ensure[p].pc = "signup_tx"
    /\ sellers' = sellers \cup {ensure[p].tg}
    /\ IF ensure[p].pc = "signup_tx"
       THEN LET s == ensure[p].ret
            IN  /\ seller_credits_rows' = seller_credits_rows \cup {s}
                /\ seller_credits' =
                      [seller_credits EXCEPT ![s] = DEFAULT_FREE_CREDITS_ON_SIGNUP]
                /\ seller_credit_transactions' =
                      [seller_credit_transactions EXCEPT ![s] =
                          Append(@, TxRow(s, DEFAULT_FREE_CREDITS_ON_SIGNUP, "free_signup",
                                          NoCampaign, DEFAULT_FREE_CREDITS_ON_SIGNUP))]
       ELSE UNCHANGED <<seller_credits, seller_credit_transactions, seller_credits_rows, payment_orders>>
    /\ ensure' = [ensure EXCEPT ![p].pc = "done"]
    /\ UNCHANGED <<campaigns, prechecked, shop_customers, campaign_deliveries,
                   now, start, grants, payment, worker, channel_sends, crashes,
                   backoff_call, completed_notified, seller_inbox, delivery_id,
                   send_batch_size, reschedule_call, payment_orders>>

\* the transaction is rolled back (the connection is lost): nothing is kept
EnsureAbort(p) ==
    /\ ensure[p].pc \in {"begun", "seller", "credits", "signup_tx"}
    /\ ensure' = [ensure EXCEPT ![p] = IdleEnsure]
    /\ UNCHANGED <<sellers, seller_credits, seller_credit_transactions, seller_credits_rows,
                   campaigns, prechecked, shop_customers, campaign_deliveries,
                   now, start, grants, payment, worker, channel_sends, crashes,
                   backoff_call, completed_notified, seller_inbox, delivery_id,
                   send_batch_size, reschedule_call, payment_orders>>

\* nobody has signed up yet
InitSignup ==
    /\ sellers = {}
    /\ seller_credits_rows = {}
    /\ payment_orders = [o \in OrderPayloads |-> PaidOrder]
    /\ seller_credits = [s \in Sellers |-> 0]
    /\ seller_credit_transactions = [s \in Sellers |-> << >>]
    /\ campaigns = [c \in Campaigns |-> NewCampaign]
    /\ prechecked = {}
    /\ shop_customers = [sh \in Shops |-> [u \in Customers |-> "none"]]
    /\ campaign_deliveries = [c \in Campaigns |-> [u \in Customers |-> NoDelivery]]
    /\ now = 0
    /\ start = [p \in Procs |-> IdleCall]
    /\ grants = 0
    /\ InitIdle

\* SpecSignup: two concurrent callers of ensure_seller and create_shop, and
\* the admin grant that changes a balance between two calls
NextSignup ==
    \/ \E p \in Procs, tg \in Sellers : EnsureCall(p, tg)
    \/ \E p \in Procs, tg \in Sellers : CreateShopCall(p, tg)
    \/ \E p \in Procs : InsertSeller(p)
    \/ \E p \in Procs : InsertCredits(p)
    \/ \E p \in Procs : InsertSignupTx(p)
    \/ \E p \in Procs : EnsureCommit(p)
    \/ \E p \in Procs : EnsureAbort(p)
    \/ \E s \in Sellers, d \in GrantDeltas : add_seller_credits(s, d, "admin_grant")

SpecSignup == InitSignup /\ [][NextSignup]_vars

\* the 'free_signup' rows of a ledger
FreeSignupRows(txs) == {i \in DOMAIN txs : txs[i].reason = "free_signup"}

\* the ensure_seller call of process p returns in this step
EnsureSellerReturns(p) ==
    /\ ensure[p].op = "ensure_seller"
    /\ ensure[p].pc \in {"credits", "signup_tx"}
    /\ ensure'[p].pc = "done"

\* C38: free signup credits are granted exactly once per seller: a seller
\* with a seller_credits row has exactly one 'free_signup' transaction, of
\* delta 3, any other seller has none; a returning ensure_seller call leaves
\* the seller with that one row, and a call for a seller who already had the
\* balance row changes neither the balance nor the ledger
C38_SignupOnce ==
    /\ [](\A s \in Sellers :
            LET rows == FreeSignupRows(seller_credit_transactions[s])
            IN  /\ Cardinality(rows) = (IF s \in seller_credits_rows THEN 1 ELSE 0)
                /\ \A i \in rows :
                      seller_credit_transactions[s][i].delta = DEFAULT_FREE_CREDITS_ON_SIGNUP)
    /\ [][\A p \in Procs :
            EnsureSellerReturns(p)
              => LET s == ensure[p].ret
                 IN  /\ s \in seller_credits_rows'
                     /\ Cardinality(FreeSignupRows(seller_credit_transactions'[s])) = 1
                     /\ s \in seller_credits_rows
                          => /\ seller_credits'[s] = seller_credits[s]
                             /\ seller_credit_transactions'[s]
                                   = seller_credit_transactions[s]]_vars

\* both processes have returned from ensure_seller for the same user, one of
\* them granted the credits, the other found the balance row, and the balance
\* has changed since the grant
C38_Witness ==
    /\ \A p \in Procs : ensure[p].pc = "done" /\ ensure[p].op = "ensure_seller"
                            /\ ensure[p].tg = 1
    /\ ensure[1].ins /\ ~ensure[2].ins
    /\ seller_credits[1] # DEFAULT_FREE_CREDITS_ON_SIGNUP
    /\ Cardinality(FreeSignupRows(seller_credit_transactions[1])) = 1

\* ------------------------------------------------------------------------
\* Hub payment orders: successful_payment of the payment hub bot and
\* pay_check_and_fulfill_cb of the seller bot
\* ------------------------------------------------------------------------
\* provider_charge = (sp.provider_payment_charge_id or "").strip()
ProviderChargeInputs == ProviderCharges \cup {""}

\* variant: the UPDATE without the condition on the status
mark_order_paid_any_status(o, charge) ==
    [payment_orders EXCEPT ![o].status = "paid", ![o].paid_at = now,
                           ![o].provider_payment_charge_id = charge]

\* UPDATE payment_orders SET status = 'paid', paid_at = now(),
\* provider_payment_charge_id = $2 WHERE id = $1 AND status = 'pending'
mark_order_paid(o, charge) ==
    IF payment_orders[o].status = "pending"
    THEN [payment_orders EXCEPT ![o].status = "paid", ![o].paid_at = now,
                                ![o].provider_payment_charge_id = charge]
    ELSE payment_orders

\* variant: the UPDATE without the condition on the status
mark_order_fulfilled_any_status(o, tg) ==
    IF payment_orders[o].buyer_tg_id = tg
    THEN [payment_orders EXCEPT ![o].status = "fulfilled", ![o].fulfilled_at = now]
    ELSE payment_orders

\* UPDATE payment_orders SET status = 'fulfilled', fulfilled_at = now()
\* WHERE id = $1 AND instance_id = $2 AND buyer_tg_id = $3
\*   AND status IN ('paid', 'fulfilled')
mark_order_fulfilled(o, tg) ==
    IF /\ payment_orders[o].buyer_tg_id = tg
       /\ payment_orders[o].status \in {"paid", "fulfilled"}
    THEN [payment_orders EXCEPT ![o].status = "fulfilled", ![o].fulfilled_at = now]
    ELSE payment_orders

\* the payment hub receives a successful_payment update (or a redelivery of
\* it) for an order; an update without a provider charge id is dropped
HubPaymentReceived(h, tg, o, charge) ==
    /\ payment[h].pc = "idle"
    /\ payment' = [payment EXCEPT ![h] =
          IF charge = ""
          THEN [IdlePayment EXCEPT !.kind = "hub_payment", !.tg = tg, !.key = o,
                                   !.res = "dropped"]
          ELSE [IdlePayment EXCEPT !.pc = "hub_received", !.kind = "hub_payment",
                                   !.tg = tg, !.key = o, !.charge = charge]]
    /\ UNCHANGED <<sellers, seller_credits, seller_credit_transactions, payment_orders,
                   campaigns, prechecked, shop_customers, campaign_deliveries, now,
                   start, grants, worker, channel_sends, crashes, backoff_call,
                   completed_notified, seller_inbox, delivery_id, send_batch_size,
                   reschedule_call, ensure, seller_credits_rows>>

\* changed = await mark_order_paid(pool, order_id, provider_payment_charge_id)
HubMarkPaid(h) ==
    /\ payment[h].pc = "hub_received"
    /\ payment_orders' = mark_order_paid(payment[h].key, payment[h].charge)
    /\ payment' = [payment EXCEPT
          ![h].pc = "idle",
          ![h].res = IF payment_orders' # payment_orders THEN "changed" ELSE "unchanged"]
    /\ UNCHANGED <<sellers, seller_credits, seller_credit_transactions,
                   campaigns, prechecked, shop_customers, campaign_deliveries, now,
                   start, grants, worker, channel_sends, crashes, backoff_call,
                   completed_notified, seller_inbox, delivery_id, send_batch_size,
                   reschedule_call, ensure, seller_credits_rows>>

\* the seller presses "check payment": get_payment_order and the checks of
\* the status; a missing or pending order ends the handler
PayCheckReceived(h, tg, o) ==
    /\ payment[h].pc = "idle"
    /\ payment' = [payment EXCEPT ![h] =
          IF payment_orders[o].buyer_tg_id # tg
          THEN [IdlePayment EXCEPT !.kind = "hub_order", !.tg = tg, !.key = o,
                                   !.res = "no_order"]
          ELSE IF payment_orders[o].status \notin {"paid", "fulfilled"}
          THEN [IdlePayment EXCEPT !.kind = "hub_order", !.tg = tg, !.key = o,
                                   !.res = "pending"]
          ELSE [IdlePayment EXCEPT !.pc = "received", !.kind = "hub_order", !.tg = tg,
                                   !.key = o,
                                   !.charge = payment_orders[o].provider_payment_charge_id]]
    /\ UNCHANGED <<sellers, seller_credits, seller_credit_transactions, payment_orders,
                   campaigns, prechecked, shop_customers, campaign_deliveries, now,
                   start, grants, worker, channel_sends, crashes, backoff_call,
                   completed_notified, seller_inbox, delivery_id, send_batch_size,
                   reschedule_call, ensure, seller_credits_rows>>

\* if already: nothing is added; else add_seller_credits(delta = qty,
\* reason = "credits_purchase_hub", invoice_payload)
PayCheckFinish(h) ==
    /\ payment[h].pc = "checked"
    /\ payment[h].kind = "hub_order"
    /\ LET tg == payment[h].tg
           new_balance == seller_credits[tg] + PackQty(payment[h].key)
       IN  IF payment[h].already
           THEN /\ payment' = [payment EXCEPT ![h].pc = "credited", ![h].res = "already",
                                              ![h].balance = seller_credits[tg]]
                /\ UNCHANGED <<seller_credits, seller_credit_transactions>>
           ELSE /\ ~CreditsRowLocked(tg)
                /\ seller_credits' = [seller_credits EXCEPT ![tg] = new_balance]
                /\ seller_credit_transactions' =
                      [seller_credit_transactions EXCEPT ![tg] =
                          Append(@, PaymentTxRow(tg, payment[h].kind, payment[h].key,
                                                 new_balance))]
                /\ payment' = [payment EXCEPT ![h].pc = "credited", ![h].res = "credited",
                                              ![h].balance = new_balance]
    /\ UNCHANGED <<sellers, payment_orders,
                   campaigns, prechecked, shop_customers, campaign_deliveries, now,
                   start, grants, worker, channel_sends, crashes, backoff_call,
                   completed_notified, seller_inbox, delivery_id, send_batch_size,
                   reschedule_call, ensure, seller_credits_rows>>

\* try: await mark_order_fulfilled(central_pool, order_id, buyer_tg_id)
\* except Exception: logged, the handler goes on
PayCheckFulfil(h) ==
    /\ payment[h].pc = "credited"
    /\ \/ payment_orders' = mark_order_fulfilled(payment[h].key, payment[h].tg)
       \/ UNCHANGED payment_orders
    /\ payment' = [payment EXCEPT ![h].pc = "idle"]
    /\ UNCHANGED <<sellers, seller_credits, seller_credit_transactions,
                   campaigns, prechecked, shop_customers, campaign_deliveries, now,
                   start, grants, worker, channel_sends, crashes, backoff_call,
                   completed_notified, seller_inbox, delivery_id, send_batch_size,
                   reschedule_call, ensure, seller_credits_rows>>

\* seller 1 has signed up and has created one order, which is pending
InitOrders ==
    /\ sellers = {1}
    /\ seller_credits_rows = sellers
    /\ seller_credits = [s \in Sellers |-> IF s = 1 THEN DEFAULT_FREE_CREDITS_ON_SIGNUP ELSE 0]
    /\ seller_credit_transactions =
          [s \in Sellers |-> IF s = 1 THEN SignupLedger(1, 0) ELSE << >>]
    /\ payment_orders = [o \in OrderPayloads |-> NewOrder(1)]
    /\ campaigns = [c \in Campaigns |-> NewCampaign]
    /\ prechecked = {}
    /\ shop_customers = [sh \in Shops |-> [u \in Customers |-> "none"]]
    /\ campaign_deliveries = [c \in Campaigns |-> [u \in Customers |-> NoDelivery]]
    /\ now = 0
    /\ start = [p \in Procs |-> IdleCall]
    /\ grants = 0
    /\ InitIdle

\* SpecOrders: the payment hub and the seller bot handle payments, their
\* redeliveries and presses of "check payment" as concurrent tasks
NextOrders ==
    \/ \E h \in Handlers, tg \in Sellers, o \in OrderPayloads, ch \in ProviderChargeInputs :
          HubPaymentReceived(h, tg, o, ch)
    \/ \E h \in Handlers : HubMarkPaid(h)
    \/ \E h \in Handlers, tg \in Sellers, o \in OrderPayloads : PayCheckReceived(h, tg, o)
    \/ \E h \in Handlers : PaymentEnsureSeller(h)
    \/ \E h \in Handlers : PaymentCheck(h)
    \/ \E h \in Handlers : PayCheckFinish(h)
    \/ \E h \in Handlers : PayCheckFulfil(h)
    \/ Tick

SpecOrders == InitOrders /\ [][NextOrders]_vars

\* the call of mark_order_paid by handler h returns in this step
MarkOrderPaidReturns(h) == payment[h].pc = "hub_received" /\ payment'[h].pc = "idle"

\* C39: the status of a hub order only moves pending -> paid -> fulfilled;
\* mark_order_paid changes the order exactly when it is pending, returns True
\* exactly then and stores the charge id of that call, so no later call
\* returns True and the charge id of the first call stays; only a call of
\* mark_order_fulfilled on a paid or fulfilled order sets fulfilled, and
\* mark_order_fulfilled called on a pending order would change nothing
C39_OrderStatus ==
    /\ [][\A o \in OrderPayloads :
            LET old == payment_orders[o]
                new == payment_orders'[o]
            IN  /\ <<old.status, new.status>> \in
                      {<<"pending", "pending">>, <<"pending", "paid">>, <<"paid", "paid">>,
                       <<"paid", "fulfilled">>, <<"fulfilled", "fulfilled">>}
                /\ old.status # "pending"
                      => new.provider_payment_charge_id = old.provider_payment_charge_id
                /\ \A h \in Handlers :
                      (MarkOrderPaidReturns(h) /\ payment[h].key = o)
                        => /\ (payment'[h].res = "changed") = (old.status = "pending")
                           /\ old.status = "pending"
                                 => /\ new.status = "paid"
                                    /\ new.provider_payment_charge_id = payment[h].charge
                           /\ old.status # "pending" => new = old
                /\ \A h \in Handlers :
                      (payment[h].pc = "credited" /\ payment'[h].pc = "idle"
                          /\ payment[h].key = o)
                        => \/ new = old
                           \/ /\ old.status \in {"paid", "fulfilled"}
                              /\ new.status = "fulfilled"]_vars
    /\ [](\A o \in OrderPayloads :
            Cardinality({h \in Handlers :
                /\ payment[h].kind = "hub_payment" /\ payment[h].key = o
                /\ payment[h].res = "changed"}) <= 1)
    /\ [](\A o \in OrderPayloads, tg \in Sellers :
            LET called == mark_order_fulfilled(o, tg)
            IN  /\ payment_orders[o].status = "pending" => called = payment_orders
                /\ called # payment_orders
                      => /\ payment_orders[o].status \in {"paid", "fulfilled"}
                         /\ called[o].status = "fulfilled")

\* both handlers have returned from mark_order_paid for the order with
\* different charge ids, one with True and one with False, the order keeps
\* the charge id of the call that returned True and has since been fulfilled
C39_Witness ==
    /\ \A h \in Handlers : payment[h].kind = "hub_payment" /\ payment[h].pc = "idle"
    /\ payment[1].res = "unchanged" /\ payment[2].res = "changed"
    /\ payment[1].charge # payment[2].charge
    /\ payment_orders["order:a"].provider_payment_charge_id = payment[2].charge
    /\ payment_orders["order:a"].status = "fulfilled"

\* the 'credits_purchase_hub' rows of order o in the ledger of seller s
OrderRows(s, o) ==
    {i \in DOMAIN seller_credit_transactions[s] :
        seller_credit_transactions[s][i].invoice_payload = o}

\* C40 (a): credits for a hub order are added only while the order is paid
\* or fulfilled, and only to its buyer
C40_GrantOnlyWhenPaid ==
    [][\A o \in OrderPayloads, s \in Sellers :
          OrderRows(s, o)' # OrderRows(s, o)
            => /\ payment_orders[o].status \in {"paid", "fulfilled"}
               /\ payment_orders[o].buyer_tg_id = s]_vars

\* C40: credits for a hub order are granted only when the order is paid or
\* fulfilled and at most once per order: whatever the number of presses of
\* "check payment", two concurrent ones included, the ledger of the buyer
\* holds at most one row of the order, exactly one once a press has finished
\* on a paid order, and the balance has grown by the pack quantity once
C40_GrantedOnce ==
    /\ C40_GrantOnlyWhenPaid
    /\ [](\A o \in OrderPayloads, s \in Sellers :
            /\ Cardinality(OrderRows(s, o)) <= 1
            /\ seller_credits[s] =
                  (IF s \in seller_credits_rows THEN DEFAULT_FREE_CREDITS_ON_SIGNUP ELSE 0)
                    + PackQty(o) * Cardinality(OrderRows(s, o))
            /\ \A h \in Handlers :
                  (payment[h].kind = "hub_order" /\ payment[h].key = o /\ payment[h].tg = s
                      /\ payment[h].pc = "idle" /\ payment[h].res \in {"credited", "already"})
                    => Cardinality(OrderRows(s, o)) = 1)

====
